---------------------------- MODULE Spec2Model ----------------------------
(***************************************************************************)
(* Model of gewittergefahr/gg_utils/gridded_forecasts.py: the construction *)
(* of gridded probability forecasts from storm-cell-based forecasts, and   *)
(* of gewittergefahr/gg_utils/projections.py.                              *)
(*                                                                         *)
(* Units.  Buffer distances are integers counting half metres, so that     *)
(* numpy.round (round half to even) has something to round.  Planar        *)
(* coordinates are integers; probabilities are integers counting           *)
(* 1/ProbDenom.  NaN is the integer NaN, handled with IEEE semantics by    *)
(* the operators that may meet it.                                         *)
(***************************************************************************)
EXTENDS Integers, Sequences, FiniteSets, TLC

VARIABLES
    \* _check_distance_buffers
    min_distances_metres,      \* input array (half metres; NaN allowed)
    max_distances_metres,      \* input array (half metres)
    check_result,              \* "idle" | "pending" | "ok" | "ValueError"
    \* _find_grid_points_in_polygon
    polygon_object_xy,         \* [exterior |-> ring, holes |-> set of rings]
    grid_points_x_metres,      \* ascending sequence
    grid_points_y_metres,      \* ascending sequence
    raster_result,             \* [status, rows, columns]
    \* lead times of create_forecast_grids
    min_lead_time_sec,
    max_lead_time_sec,
    lead_time_resolution_sec,
    lead_times_seconds,        \* sequence; <<>> before it is computed
    \* create_forecast_grids
    storm_object_table,        \* input: sequence of storm objects
    pc,                        \* position in create_forecast_grids
    init_time_index,           \* i of the loop over initial times (1-based)
    this_storm_object_table,   \* storm objects of initial time i, with the
                               \* derived columns
    lead_time_index,           \* position in lead_times_seconds (1-based)
    this_extrap_storm_object_table,
    this_probability_matrix_xy,
    this_num_forecast_matrix,
    gridded_forecast_dict,     \* XY_PROBABILITIES_KEY: one entry per time
    error,                     \* "none" | "ValueError" | "TypeError" |
                               \* "IndexError"
    smoothing_method,          \* "None" | a string | "not a string"
    interp_to_latlng_grid,     \* BOOLEAN
    latlng_forecast_dict,      \* the lat-long keys of gridded_forecast_dict
    returned_dict,             \* what the caller receives at line 1443
    \* _create_xy_grid
    x_spacing_metres,
    y_spacing_metres,
    \* projections.project_latlng_to_xy and project_xy_to_latlng
    projection_name,           \* "lcc" | "aeqd" ("none" when idle)
    latitudes_deg,             \* input array: index |-> <<degrees>> or <<>>
    longitudes_deg,
    false_easting_metres,
    false_northing_metres,
    x_coords_metres,           \* result of project_latlng_to_xy
    y_coords_metres,
    out_latitudes_deg,         \* result of project_xy_to_latlng on it
    out_longitudes_deg,
    proj_pc,                   \* "idle" | "start" | "checked" | "projected"
                               \* | "inverted" | "error"
    \* hfmetar_io: the wind parsers and the raw-file finders
    words,                     \* line_string.split(): sequence of words,
                               \* a word being a sequence of characters
    wind_fields,               \* the four wind fields of a 1-minute line
    wind_tuple,                \* result of the parser; <<>> before
    station_id,
    top_directory_name,
    month_unix_sec,
    raw_file_exists,           \* os.path.isfile of the expected path
    raise_error_if_missing,
    raw_file_name,             \* result of find_local_raw_*_file
    metar_pc,                  \* "idle" | the function called | "returned"
                               \* | "error"
    \* training_validation_io.storm_image_generator_2d
    num_image_times,
    num_examples_per_batch,
    num_examples_per_image_time,
    image_time_index,
    num_image_times_in_memory,
    num_examples_in_memory_by_class,
    full_predictor_matrix,     \* [is_none, num_rows]
    all_target_values,         \* [is_none, values]
    class_fractions_to_sample, \* [is_none, num_points_by_class]
    generator_pc               \* "idle" | "start" | "read" | "batch"
                               \* | "yielded" | "error"

bufferVars == <<min_distances_metres, max_distances_metres, check_result>>

rasterVars ==
    <<polygon_object_xy, grid_points_x_metres, grid_points_y_metres,
      raster_result>>

leadVars ==
    <<min_lead_time_sec, max_lead_time_sec, lead_time_resolution_sec,
      lead_times_seconds>>

gridVars == <<grid_points_x_metres, grid_points_y_metres>>

pipelineVars ==
    <<storm_object_table, pc, init_time_index, this_storm_object_table,
      lead_time_index, this_extrap_storm_object_table,
      this_probability_matrix_xy, this_num_forecast_matrix,
      gridded_forecast_dict, error, smoothing_method, interp_to_latlng_grid,
      latlng_forecast_dict, returned_dict>>

spacingVars == <<x_spacing_metres, y_spacing_metres>>

projVars ==
    <<projection_name, latitudes_deg, longitudes_deg, false_easting_metres,
      false_northing_metres, x_coords_metres, y_coords_metres,
      out_latitudes_deg, out_longitudes_deg, proj_pc>>

metarVars ==
    <<words, wind_fields, wind_tuple, station_id, top_directory_name,
      month_unix_sec,
      raw_file_exists, raise_error_if_missing, raw_file_name, metar_pc>>

generatorVars ==
    <<num_image_times, num_examples_per_batch, num_examples_per_image_time,
      image_time_index, num_image_times_in_memory,
      num_examples_in_memory_by_class, full_predictor_matrix,
      all_target_values, class_fractions_to_sample, generator_pc>>

ioVars == <<metarVars, generatorVars>>

vars ==
    <<bufferVars, rasterVars, leadVars, pipelineVars, spacingVars, projVars,
      ioVars>>

NaN == -1

IsNaN(x) == x = NaN

Range(s) == {s[n] : n \in DOMAIN s}

(***************************************************************************)
(* numpy.round of a value given in half metres, in whole metres: round     *)
(* half to even.  NaN stays NaN.                                           *)
(***************************************************************************)
\* A rounding that drops the half metre instead (numpy.floor).
RoundFloor(h) == IF IsNaN(h) THEN NaN ELSE h \div 2

RoundHalfEven(h) ==
    IF IsNaN(h) THEN NaN
    ELSE IF h % 2 = 0 THEN h \div 2
    ELSE IF ((h - 1) \div 2) % 2 = 0 THEN (h - 1) \div 2
    ELSE (h + 1) \div 2

NumpyRound(h) == RoundHalfEven(h)

(***************************************************************************)
(* numpy.argsort: the permutations of the indices that put the keys in     *)
(* ascending order (ties in either order).                                 *)
(***************************************************************************)
Permutations1(n) ==
    {p \in [1..n -> 1..n] : \A a, b \in 1..n : a # b => p[a] # p[b]}

ArgSorts(keys) ==
    {p \in Permutations1(Len(keys)) :
        \A a, b \in 1..Len(keys) : a < b => keys[p[a]] <= keys[p[b]]}

(***************************************************************************)
(* error_checking.assert_is_geq_numpy_array(x, 0., allow_nan=True)         *)
(***************************************************************************)
AllGeqZeroOrNaN(arr) == \A n \in DOMAIN arr : IsNaN(arr[n]) \/ arr[n] >= 0

(***************************************************************************)
(* The body of the loop over j of _check_distance_buffers, on the sorted   *)
(* and rounded arrays: TRUE iff iteration j raises.                        *)
(***************************************************************************)
WidthCheckFails(smin, smax, j) ==
    IF IsNaN(smin[j]) THEN ~(smax[j] >= 0) ELSE ~(smax[j] > smin[j])

AbutCheckFails(smin, smax, j) ==
    j # 1 /\ (IsNaN(smin[j]) \/ smin[j] # smax[j - 1])

BufferIterationRaises(smin, smax, j) ==
    WidthCheckFails(smin, smax, j) \/ AbutCheckFails(smin, smax, j)

\* A check of the buffers that lets every set through.
AbutCheckIgnored(min_distances, max_distances, p) == "ok"

(***************************************************************************)
(* _check_distance_buffers under one sort order.                           *)
(***************************************************************************)
CheckDistanceBuffersWith(mins, maxs, p) ==
    LET smin == [j \in 1..Len(mins) |-> NumpyRound(mins[p[j]])]
        smax == [j \in 1..Len(maxs) |-> NumpyRound(maxs[p[j]])]
    IN  IF ~AllGeqZeroOrNaN(mins) \/ Len(maxs) # Len(mins)
        THEN "ValueError"
        ELSE IF \E j \in 1..Len(mins) : BufferIterationRaises(smin, smax, j)
        THEN "ValueError"
        ELSE "ok"

----------------------------------------------------------------------------
(***************************************************************************)
(* Geometry.  A point is <<x, y>>; a ring is a sequence of vertices, the   *)
(* last joined to the first; a polygon is an exterior ring and a set of    *)
(* holes.                                                                  *)
(***************************************************************************)
Min(S) == CHOOSE m \in S : \A n \in S : m <= n
Max(S) == CHOOSE m \in S : \A n \in S : m >= n

RingX(ring) == {ring[n][1] : n \in DOMAIN ring}
RingY(ring) == {ring[n][2] : n \in DOMAIN ring}

Translate(ring, dx, dy) ==
    [n \in DOMAIN ring |-> <<ring[n][1] + dx, ring[n][2] + dy>>]

TranslatePolygon(polygon, dx, dy) ==
    [exterior |-> Translate(polygon.exterior, dx, dy),
     holes    |-> {Translate(h, dx, dy) : h \in polygon.holes}]

SquareRing(side) == <<<<0, 0>>, <<side, 0>>, <<side, side>>, <<0, side>>>>

NextVertex(ring, n) == ring[(n % Len(ring)) + 1]

Cross(a, b, p) ==
    (b[1] - a[1]) * (p[2] - a[2]) - (b[2] - a[2]) * (p[1] - a[1])

OnSegment(p, a, b) ==
    /\ Cross(a, b, p) = 0
    /\ Min({a[1], b[1]}) <= p[1] /\ p[1] <= Max({a[1], b[1]})
    /\ Min({a[2], b[2]}) <= p[2] /\ p[2] <= Max({a[2], b[2]})

OnRing(p, ring) ==
    \E n \in DOMAIN ring : OnSegment(p, ring[n], NextVertex(ring, n))

\* The edge from a to b crosses the ray from p towards +x.
EdgeCrossesRay(p, a, b) ==
    /\ (a[2] > p[2]) # (b[2] > p[2])
    /\ IF b[2] > a[2]
       THEN (p[1] - a[1]) * (b[2] - a[2]) < (p[2] - a[2]) * (b[1] - a[1])
       ELSE (p[1] - a[1]) * (b[2] - a[2]) > (p[2] - a[2]) * (b[1] - a[1])

StrictlyInsideRing(p, ring) ==
    /\ ~OnRing(p, ring)
    /\ Cardinality({n \in DOMAIN ring :
            EdgeCrossesRay(p, ring[n], NextVertex(ring, n))}) % 2 = 1

(***************************************************************************)
(* polygons.point_in_or_on_polygon: strictly inside, or exactly on the     *)
(* boundary (of the exterior or of a hole).                                *)
(***************************************************************************)
PointInOrOnPolygon(polygon, x, y) ==
    /\ OnRing(<<x, y>>, polygon.exterior)
       \/ StrictlyInsideRing(<<x, y>>, polygon.exterior)
    /\ \A h \in polygon.holes : ~StrictlyInsideRing(<<x, y>>, h)

(***************************************************************************)
(* Python's a[i] on a TLA+ sequence: 0-based, a negative index counts from *)
(* the end, anything outside [-len, len) raises IndexError.                *)
(***************************************************************************)
IndexInBounds(n, len) == -len <= n /\ n < len

ResolveIndex(n, len) == IF n < 0 THEN n + len ELSE n

(***************************************************************************)
(* numpy.searchsorted(sorted_input_array, [test_value], side=...)[0]       *)
(***************************************************************************)
SearchSortedLeft(arr, v) == Cardinality({n \in DOMAIN arr : arr[n] < v})

SearchSortedRight(arr, v) == Cardinality({n \in DOMAIN arr : arr[n] <= v})

(***************************************************************************)
(* _find_min_value_greater_or_equal and _find_max_value_less_than_or_equal:*)
(* the index found, and whether reading sorted_input_array at it raises.   *)
(***************************************************************************)
FindMinValueGreaterOrEqual(arr, v) ==
    [index  |-> SearchSortedLeft(arr, v),
     raises |-> ~IndexInBounds(SearchSortedLeft(arr, v), Len(arr))]

FindMaxValueLessThanOrEqual(arr, v) ==
    [index  |-> SearchSortedRight(arr, v) - 1,
     raises |-> ~IndexInBounds(SearchSortedRight(arr, v) - 1, Len(arr))]

\* The pairs <<row, column>> of the two nested range() loops, in loop order.
CandidatePairs(min_row, max_row, min_column, max_column) ==
    LET nr == IF max_row >= min_row THEN max_row - min_row + 1 ELSE 0
        nc == IF max_column >= min_column
              THEN max_column - min_column + 1 ELSE 0
    IN  [n \in 1..(nr * nc) |->
            <<min_row + ((n - 1) \div nc), min_column + ((n - 1) % nc)>>]

(***************************************************************************)
(* _find_grid_points_in_polygon.  rows and columns are 0-based, as in the  *)
(* code; status is "IndexError" when a lookup raises.                      *)
(***************************************************************************)
FindGridPointsInPolygon(polygon, xs, ys) ==
    LET min_x == Min(RingX(polygon.exterior))
        max_x == Max(RingX(polygon.exterior))
        min_y == Min(RingY(polygon.exterior))
        max_y == Max(RingY(polygon.exterior))
        min_row == FindMinValueGreaterOrEqual(ys, min_y)
        max_row == FindMaxValueLessThanOrEqual(ys, max_y)
        min_column == FindMinValueGreaterOrEqual(xs, min_x)
        max_column == FindMaxValueLessThanOrEqual(xs, max_x)
        tested == CandidatePairs(min_row.index, max_row.index,
                                 min_column.index, max_column.index)
        kept == SelectSeq(tested, LAMBDA pr :
                    PointInOrOnPolygon(polygon, xs[pr[2] + 1], ys[pr[1] + 1]))
    IN  IF min_row.raises \/ max_row.raises
           \/ min_column.raises \/ max_column.raises
        THEN [status |-> "IndexError", rows |-> <<>>, columns |-> <<>>]
        ELSE [status  |-> "ok",
              rows    |-> [n \in DOMAIN kept |-> kept[n][1]],
              columns |-> [n \in DOMAIN kept |-> kept[n][2]]]

RasterIdle ==
    /\ polygon_object_xy = [exterior |-> <<>>, holes |-> {}]
    /\ grid_points_x_metres = <<>>
    /\ grid_points_y_metres = <<>>
    /\ raster_result = [status |-> "idle", rows |-> <<>>, columns |-> <<>>]

----------------------------------------------------------------------------
(***************************************************************************)
(* Lead times (create_forecast_grids, lines 1208-1226).                    *)
(***************************************************************************)
\* numpy.round(num / den) for num >= 0, den > 0: round half to even.
RoundRatioHalfEven(num, den) ==
    LET q == num \div den
        r == num % den
    IN  IF 2 * r < den THEN q
        ELSE IF 2 * r > den THEN q + 1
        ELSE IF q % 2 = 0 THEN q ELSE q + 1

\* The argument checks of lines 1208-1213.
LeadArgsAccepted(min_lead, max_lead, res) ==
    min_lead >= 0 /\ max_lead > min_lead /\ res > 0

NumLeadTimes(min_lead, max_lead, res) ==
    1 + RoundRatioHalfEven(max_lead - min_lead, res)

\* numpy.linspace(start, stop, num=num, dtype=int), start <= stop.
LinspaceInt(start, stop, num) ==
    [n \in 1..num |->
        IF num = 1 THEN start
        ELSE start + (((n - 1) * (stop - start)) \div (num - 1))]

LeadTimesSeconds(min_lead, max_lead, res) ==
    LinspaceInt(min_lead, max_lead, NumLeadTimes(min_lead, max_lead, res))

LeadIdle ==
    /\ min_lead_time_sec = 0
    /\ max_lead_time_sec = 0
    /\ lead_time_resolution_sec = 0
    /\ lead_times_seconds = <<>>

----------------------------------------------------------------------------
(***************************************************************************)
(* create_forecast_grids.                                                  *)
(*                                                                         *)
(* A storm object is a record                                              *)
(*   [valid_time_unix_sec, east_velocity_m_s01, north_velocity_m_s01,      *)
(*    latlng, xy, forecast, grid_rows, grid_columns]                       *)
(* whose last five fields are sequences with one entry per distance        *)
(* buffer (the buffer columns of the table).  forecast counts 1/ProbDenom  *)
(* on input and 1/ProbScale once normalized.  The cells of a matrix are    *)
(* the pairs <<row, column>>, 0-based.                                     *)
(***************************************************************************)
GridSpacingX == 2
GridSpacingY == 2
NumGridRows == 3
NumGridColumns == 4
GridOrigin == <<0, 0>>

\* grids.get_xy_grid_points, one axis.
XYGridPoints(min_metres, spacing_metres, num) ==
    [n \in 1..num |-> min_metres + (n - 1) * spacing_metres]

\* _create_default_xy_grid: a fixed grid, the same for every initial time.
DefaultGridX == XYGridPoints(GridOrigin[1], GridSpacingX, NumGridColumns)
DefaultGridY == XYGridPoints(GridOrigin[2], GridSpacingY, NumGridRows)

GridCells(num_rows, num_columns) ==
    (0..(num_rows - 1)) \X (0..(num_columns - 1))

\* polygons.project_latlng_to_xy with zero false easting and northing: the
\* plane's origin is at the projection centre.
ProjectionCentre == <<100, 30>>

ProjectRingToXY(ring) ==
    Translate(ring, -ProjectionCentre[1], -ProjectionCentre[2])

ProjectPolygonToXY(polygon) ==
    [exterior |-> ProjectRingToXY(polygon.exterior),
     holes    |-> {ProjectRingToXY(h) : h \in polygon.holes}]

\* _polygons_from_latlng_to_xy
PolygonsFromLatLngToXY(table) ==
    [k \in DOMAIN table |->
        [table[k] EXCEPT !.xy =
            [j \in DOMAIN table[k].latlng |->
                ProjectPolygonToXY(table[k].latlng[j])]]]

\* Twice the area enclosed by a ring (shoelace), and of a polygon.
RECURSIVE ShoelaceSum(_, _)
ShoelaceSum(ring, n) ==
    IF n = 0 THEN 0
    ELSE ring[n][1] * NextVertex(ring, n)[2]
         - NextVertex(ring, n)[1] * ring[n][2]
         + ShoelaceSum(ring, n - 1)

Abs(x) == IF x < 0 THEN -x ELSE x

TwiceRingArea(ring) == Abs(ShoelaceSum(ring, Len(ring)))

RECURSIVE SumOver(_, _)
SumOver(S, f) ==
    IF S = {} THEN 0
    ELSE LET x == CHOOSE y \in S : TRUE IN f[x] + SumOver(S \ {x}, f)

TwicePolygonArea(polygon) ==
    TwiceRingArea(polygon.exterior)
    - SumOver(polygon.holes, [h \in polygon.holes |-> TwiceRingArea(h)])

RECURSIVE Pow(_, _)
Pow(b, e) == IF e = 0 THEN 1 ELSE b * Pow(b, e - 1)

(***************************************************************************)
(* _normalize_probs_by_polygon_area: 1 - (1 - f)^(pi r^2 / A).  The model  *)
(* keeps pi r^2 (ProbAreaForGrid) a whole multiple of every polygon area,  *)
(* so that the power is a rational number: f counts 1/ProbDenom and the    *)
(* result counts 1/ProbScale.                                              *)
(***************************************************************************)
ProbDenom == 10
ProbAreaForGrid == 12
MaxNormExponent == (2 * ProbAreaForGrid) \div TwiceRingArea(SquareRing(2))
ProbScale == Pow(ProbDenom, MaxNormExponent)

\* numpy's -inf, in units of 1/ProbScale.
NegInfinity == -(ProbScale * ProbScale)

\* (1 - f)^(pi r^2 / A), without the complement.
ComplementPower(f, twice_area) ==
    IF twice_area = 0 THEN 0
    ELSE LET e == (2 * ProbAreaForGrid) \div twice_area
         IN  Pow(ProbDenom - f, e) * Pow(ProbDenom, MaxNormExponent - e)

\* A polygon of area zero makes the exponent +inf (a division by zero is a
\* warning in numpy): the power is 0 for a base inside (-1, 1), 1 for a base
\* of 1 or -1, and +inf beyond.
NormalizedProb(f, twice_area) ==
    IF twice_area = 0
    THEN IF Abs(ProbDenom - f) < ProbDenom THEN ProbScale
         ELSE IF Abs(ProbDenom - f) = ProbDenom THEN 0
         ELSE NegInfinity
    ELSE LET e == (2 * ProbAreaForGrid) \div twice_area
         IN  ProbScale
             - Pow(ProbDenom - f, e) * Pow(ProbDenom, MaxNormExponent - e)

\* The table with the forecast probabilities as they came.
RawProbsKept(table) == table

NormalizeProbsByPolygonArea(table) ==
    [k \in DOMAIN table |->
        [table[k] EXCEPT !.forecast =
            [j \in DOMAIN table[k].forecast |->
                NormalizedProb(table[k].forecast[j],
                               TwicePolygonArea(table[k].xy[j]))]]]

(***************************************************************************)
(* _polygons_to_grid_points: the rasterizer on every buffer of every storm *)
(* object.  "IndexError" when a call raises.                               *)
(***************************************************************************)
PolygonsToGridPoints(table, xs, ys) ==
    LET found == [k \in DOMAIN table |->
                    [j \in DOMAIN table[k].xy |->
                        FindGridPointsInPolygon(table[k].xy[j], xs, ys)]]
    IN  [status |->
            IF \E k \in DOMAIN table : \E j \in DOMAIN table[k].xy :
                    found[k][j].status # "ok"
            THEN "IndexError" ELSE "ok",
         table |->
            [k \in DOMAIN table |->
                [table[k] EXCEPT
                    !.grid_rows =
                        [j \in DOMAIN table[k].xy |-> found[k][j].rows],
                    !.grid_columns =
                        [j \in DOMAIN table[k].xy |-> found[k][j].columns]]]]

(***************************************************************************)
(* geodetic_utils.start_points_and_displacements_to_endpoints after        *)
(* _storm_motion_from_uv_to_speed_direction: the end point of a path of    *)
(* length speed x lead time along the bearing, on a locally flat earth.    *)
(* Returns <<longitude, latitude>>.                                        *)
(***************************************************************************)
ExtrapEndpoint(start, storm, lead_time_seconds) ==
    <<start[1] + storm.east_velocity_m_s01 * lead_time_seconds,
      start[2] + storm.north_velocity_m_s01 * lead_time_seconds>>

(***************************************************************************)
(* _extrapolate_polygons: every vertex of the exterior moves by the        *)
(* displacement of the first vertex; the result is projected to x-y.       *)
(***************************************************************************)
ExtrapolatedLatLng(polygon, storm, lead_time_seconds) ==
    LET first == polygon.exterior[1]
        moved == ExtrapEndpoint(first, storm, lead_time_seconds)
    IN  [exterior |-> Translate(polygon.exterior,
                                moved[1] - first[1], moved[2] - first[2]),
         holes    |-> {}]

ExtrapolatePolygons(table, lead_time_seconds) ==
    PolygonsFromLatLngToXY(
        [k \in DOMAIN table |->
            [table[k] EXCEPT
                !.latlng = [j \in DOMAIN table[k].latlng |->
                    ExtrapolatedLatLng(table[k].latlng[j], table[k],
                                       lead_time_seconds)],
                !.grid_rows = [j \in DOMAIN table[k].latlng |-> <<>>],
                !.grid_columns = [j \in DOMAIN table[k].latlng |-> <<>>]]])

\* The difference in metres taken as a number of cells.
DiffInMetres(diff, spacing) == diff

\* int(numpy.round(diff / spacing)), for a difference of either sign.
RoundDiffToGridCells(diff, spacing) ==
    IF diff >= 0 THEN RoundRatioHalfEven(diff, spacing)
    ELSE -RoundRatioHalfEven(-diff, spacing)

\* The membership of lead time 0, not moved.
IndicesKept(indices, diff) == indices

ShiftIndices(indices, diff) == [n \in DOMAIN indices |-> indices[n] + diff]

\* _extrap_polygons_to_grid_points
ExtrapPolygonsToGridPoints(orig_table, extrap_table, spacing_x, spacing_y) ==
    [k \in DOMAIN orig_table |->
        [extrap_table[k] EXCEPT
            !.grid_rows = [j \in DOMAIN orig_table[k].xy |->
                ShiftIndices(orig_table[k].grid_rows[j],
                    RoundDiffToGridCells(
                        extrap_table[k].xy[j].exterior[1][2]
                            - orig_table[k].xy[j].exterior[1][2],
                        spacing_y))],
            !.grid_columns = [j \in DOMAIN orig_table[k].xy |->
                ShiftIndices(orig_table[k].grid_columns[j],
                    RoundDiffToGridCells(
                        extrap_table[k].xy[j].exterior[1][1]
                            - orig_table[k].xy[j].exterior[1][1],
                        spacing_x))]]]

(***************************************************************************)
(* Lines 1351-1369 for one buffer j of one storm object k: numpy's         *)
(* matrix[rows, columns] += ..., where an index in [-n, 0) counts from the *)
(* end and an index outside [-n, n) raises IndexError.                     *)
(***************************************************************************)
AddedCells(rows, columns, num_rows, num_columns) ==
    {<<ResolveIndex(rows[n], num_rows), ResolveIndex(columns[n], num_columns)>> :
        n \in DOMAIN rows}

\* An accumulation that writes the count (= 1) where the code adds to it.
AddContributionCountOnce(acc, rows, columns, prob, num_rows, num_columns) ==
    IF Len(rows) = 0 THEN acc
    ELSE [acc EXCEPT
            !.count = [cell \in DOMAIN acc.count |->
                IF cell \in AddedCells(rows, columns, num_rows, num_columns)
                THEN 1 ELSE acc.count[cell]],
            !.sum = [cell \in DOMAIN acc.sum |->
                IF cell \in AddedCells(rows, columns, num_rows, num_columns)
                THEN acc.sum[cell] + prob ELSE acc.sum[cell]]]

AddContribution(acc, rows, columns, prob, num_rows, num_columns) ==
    IF Len(rows) = 0 THEN acc
    ELSE IF \E n \in DOMAIN rows :
                \/ ~IndexInBounds(rows[n], num_rows)
                \/ ~IndexInBounds(columns[n], num_columns)
    THEN [acc EXCEPT !.error = "IndexError"]
    ELSE [acc EXCEPT
            !.count = [cell \in DOMAIN acc.count |->
                IF cell \in AddedCells(rows, columns, num_rows, num_columns)
                THEN acc.count[cell] + 1 ELSE acc.count[cell]],
            !.sum = [cell \in DOMAIN acc.sum |->
                IF cell \in AddedCells(rows, columns, num_rows, num_columns)
                THEN acc.sum[cell] + prob ELSE acc.sum[cell]]]

\* The loops over j (buffers) and k (storm objects), from pair n on; the
\* first error ends them.
RECURSIVE AccumulateFrom(_, _, _, _, _, _)
AccumulateFrom(acc, extrap_table, table, n, num_rows, num_columns) ==
    LET num_storms == Len(table)
        num_buffers == Len(table[1].forecast)
        j == ((n - 1) \div num_storms) + 1
        k == ((n - 1) % num_storms) + 1
    IN  IF n > num_storms * num_buffers \/ acc.error # "none" THEN acc
        ELSE AccumulateFrom(
                AddContribution(acc, extrap_table[k].grid_rows[j],
                                extrap_table[k].grid_columns[j],
                                table[k].forecast[j], num_rows, num_columns),
                extrap_table, table, n + 1, num_rows, num_columns)

\* numpy.unique of the valid times: sorted, without repeats.
UniqueSorted(S) ==
    CHOOSE f \in [1..Cardinality(S) -> S] :
        \A a, b \in 1..Cardinality(S) : a < b => f[a] < f[b]

\* The valid times row by row, repeats kept.
ValidTimesOfRows(table) ==
    [k \in DOMAIN table |-> table[k].valid_time_unix_sec]

\* Line 1273: numpy.unique of the valid times.
InitTimesUnixSec(table) ==
    UniqueSorted({table[k].valid_time_unix_sec : k \in DOMAIN table})

\* storm_object_table.loc[valid time == init_times_unix_sec[i]]
StormObjectsAtTime(table, time) ==
    SelectSeq(table, LAMBDA storm : storm.valid_time_unix_sec = time)

\* A matrix left with a count in every cell.
StaleMatrix(num_rows, num_columns) ==
    [cell \in GridCells(num_rows, num_columns) |-> 1]

ZeroMatrix(num_rows, num_columns) ==
    [cell \in GridCells(num_rows, num_columns) |-> 0]

\* A matrix of probabilities: cell |-> [num, den], the value num / den in
\* units of 1/ProbScale; den = 0 is NaN (numpy's 0. / 0).
ProbabilityMatrix(sum_matrix, den_matrix) ==
    [cell \in DOMAIN sum_matrix |->
        [num |-> sum_matrix[cell], den |-> den_matrix[cell]]]

OnesMatrix(num_rows, num_columns) ==
    [cell \in GridCells(num_rows, num_columns) |-> 1]

\* The sums as they are, not divided by the counts.
SumsKept(matrix, num_forecast_matrix) == matrix

\* this_probability_matrix_xy / this_num_forecast_matrix
DivideMatrices(matrix, num_forecast_matrix) ==
    [cell \in DOMAIN matrix |->
        [num |-> matrix[cell].num,
         den |-> matrix[cell].den * num_forecast_matrix[cell]]]

NoMatrix == [set |-> FALSE, matrix |-> <<>>]

(***************************************************************************)
(* _check_smoothing_method, called when smoothing_method is not None.      *)
(* "None" stands for Python's None and "not a string" for any value that   *)
(* error_checking.assert_is_string rejects.                                *)
(***************************************************************************)
VALID_SMOOTHING_METHODS == {"gaussian", "cressman"}

\* A check that accepts every string.
AcceptAnyString(method) ==
    IF method = "not a string" THEN "TypeError" ELSE "ok"

CheckSmoothingMethod(method) ==
    IF method = "not a string" THEN "TypeError"
    ELSE IF method \notin VALID_SMOOTHING_METHODS THEN "ValueError"
    ELSE "ok"

\* Lines 1217-1218
SmoothingArgumentCheck(method) ==
    IF method = "None" THEN "ok" ELSE CheckSmoothingMethod(method)

(***************************************************************************)
(* grid_smoothing_2d.apply_gaussian and apply_cressman with a cutoff       *)
(* radius below the grid spacing: the kernel holds the centre point only,  *)
(* with weight 1.                                                          *)
(***************************************************************************)
ApplySmoothing(matrix, method) == matrix

(***************************************************************************)
(* number_rounding.floor_to_nearest and ceiling_to_nearest.                *)
(***************************************************************************)
\* The multiple of spacing next to x on the side of zero.
TruncateToNearest(x, spacing) ==
    IF x >= 0 THEN (x \div spacing) * spacing
    ELSE -((-x) \div spacing) * spacing

FloorToNearest(x, spacing) == (x \div spacing) * spacing

CeilingToNearest(x, spacing) == -((-x) \div spacing) * spacing

(***************************************************************************)
(* _create_latlng_grid and _interp_probabilities_to_latlng_grid.  The      *)
(* projection is the translation of ProjectRingToXY; longitude and         *)
(* latitude spacing are LatLngSpacing.                                     *)
(***************************************************************************)
LatLngSpacing == 4

\* grids.get_latlng_grid_points, one axis.
LatLngGridPoints(min_deg, spacing_deg, num) ==
    [n \in 1..num |-> min_deg + (n - 1) * spacing_deg]

\* _create_latlng_grid, one axis: centre is the projection centre's
\* coordinate on that axis.
CreateLatLngAxis(points_metres, centre, spacing_deg) ==
    LET degrees == {points_metres[n] + centre : n \in DOMAIN points_metres}
        min_deg == FloorToNearest(Min(degrees), spacing_deg)
        max_deg == CeilingToNearest(Max(degrees), spacing_deg)
        num     == 1 + RoundRatioHalfEven(max_deg - min_deg, spacing_deg)
    IN  LatLngGridPoints(min_deg, spacing_deg, num)

\* interp.interp_from_xy_grid_to_points, nearest neighbour with
\* extrapolate=True, one axis: the 0-based index of the nearest grid point.
NearestGridIndex(sorted_points, query) ==
    (CHOOSE n \in DOMAIN sorted_points :
        \A m \in DOMAIN sorted_points :
            \/ Abs(sorted_points[n] - query) < Abs(sorted_points[m] - query)
            \/ /\ Abs(sorted_points[n] - query)
                    = Abs(sorted_points[m] - query)
               /\ n <= m) - 1

InterpProbabilitiesToLatLngGrid(probability_matrix_xy, xs, ys) ==
    LET latitudes  == CreateLatLngAxis(ys, ProjectionCentre[2], LatLngSpacing)
        longitudes == CreateLatLngAxis(xs, ProjectionCentre[1], LatLngSpacing)
    IN  [matrix |->
            [cell \in GridCells(Len(latitudes), Len(longitudes)) |->
                probability_matrix_xy[
                    <<NearestGridIndex(
                        ys, latitudes[cell[1] + 1] - ProjectionCentre[2]),
                      NearestGridIndex(
                        xs, longitudes[cell[2] + 1] - ProjectionCentre[1])>>]],
         latitudes  |-> latitudes,
         longitudes |-> longitudes]

\* The lat-long keys of gridded_forecast_dict: LATLNG_PROBABILITIES_KEY
\* (has_probabilities, probabilities) and GRID_LATITUDES_KEY,
\* GRID_LONGITUDES_KEY (has_grid, latitudes, longitudes).
NoLatLngDict ==
    [has_probabilities |-> FALSE, probabilities |-> <<>>,
     has_grid |-> FALSE, latitudes |-> <<>>, longitudes |-> <<>>]

\* Lines 1301-1304
InitialLatLngDict(interp, num_init_times) ==
    IF interp
    THEN [NoLatLngDict EXCEPT
            !.has_probabilities = TRUE,
            !.probabilities = [i \in 1..num_init_times |-> NoMatrix]]
    ELSE NoLatLngDict

NothingReturned ==
    [returned |-> FALSE, init_times |-> <<>>, xy_probabilities |-> <<>>,
     latlng |-> NoLatLngDict]

PipelineIdle ==
    /\ storm_object_table = <<>>
    /\ pc = "idle"
    /\ init_time_index = 0
    /\ this_storm_object_table = <<>>
    /\ lead_time_index = 0
    /\ this_extrap_storm_object_table = <<>>
    /\ this_probability_matrix_xy = <<>>
    /\ this_num_forecast_matrix = <<>>
    /\ gridded_forecast_dict = <<>>
    /\ error = "none"
    /\ smoothing_method = "None"
    /\ interp_to_latlng_grid = FALSE
    /\ latlng_forecast_dict = NoLatLngDict
    /\ returned_dict = NothingReturned

SpacingIdle ==
    /\ x_spacing_metres = 0
    /\ y_spacing_metres = 0

NoPredictorMatrix == [is_none |-> TRUE, num_rows |-> 0]

NoTargetValues == [is_none |-> TRUE, values |-> <<>>]

NoClassFractions == [is_none |-> TRUE, num_points_by_class |-> <<>>]

MetarIdle ==
    /\ words = <<>>
    /\ wind_fields = <<>>
    /\ wind_tuple = <<>>
    /\ station_id = ""
    /\ top_directory_name = ""
    /\ month_unix_sec = 0
    /\ raw_file_exists = FALSE
    /\ raise_error_if_missing = FALSE
    /\ raw_file_name = <<>>
    /\ metar_pc = "idle"

GeneratorIdle ==
    /\ num_image_times = 0
    /\ num_examples_per_batch = 0
    /\ num_examples_per_image_time = 0
    /\ image_time_index = 0
    /\ num_image_times_in_memory = 0
    /\ num_examples_in_memory_by_class = <<>>
    /\ full_predictor_matrix = NoPredictorMatrix
    /\ all_target_values = NoTargetValues
    /\ class_fractions_to_sample = NoClassFractions
    /\ generator_pc = "idle"

IoIdle == MetarIdle /\ GeneratorIdle

ProjIdle ==
    /\ projection_name = "none"
    /\ latitudes_deg = <<>>
    /\ longitudes_deg = <<>>
    /\ false_easting_metres = 0
    /\ false_northing_metres = 0
    /\ x_coords_metres = <<>>
    /\ y_coords_metres = <<>>
    /\ out_latitudes_deg = <<>>
    /\ out_longitudes_deg = <<>>
    /\ proj_pc = "idle"

----------------------------------------------------------------------------
(* Bounds of the buffer-check specification. *)
MaxBuffers == 3
MaxHalfMetres == 4

BufferPairs ==
    {pr \in ((0..MaxHalfMetres) \cup {NaN}) \X (0..MaxHalfMetres) :
        IsNaN(pr[1]) \/ pr[2] > pr[1]}

BufferInputs ==
    UNION {[1..n -> BufferPairs] : n \in 1..MaxBuffers}

BuffersIdle ==
    /\ min_distances_metres = <<>>
    /\ max_distances_metres = <<>>
    /\ check_result = "idle"

InitBuffers ==
    /\ RasterIdle
    /\ LeadIdle
    /\ PipelineIdle
    /\ SpacingIdle
    /\ ProjIdle
    /\ IoIdle
    /\ \E inp \in BufferInputs :
        /\ min_distances_metres = [j \in DOMAIN inp |-> inp[j][1]]
        /\ max_distances_metres = [j \in DOMAIN inp |-> inp[j][2]]
    /\ check_result = "pending"

CheckDistanceBuffers ==
    /\ check_result = "pending"
    /\ \E p \in ArgSorts(max_distances_metres) :
        check_result' = CheckDistanceBuffersWith(
            min_distances_metres, max_distances_metres, p)
    /\ UNCHANGED <<min_distances_metres, max_distances_metres>>
    /\ UNCHANGED <<rasterVars, leadVars, pipelineVars, spacingVars,
                   projVars, ioVars>>

NextBuffers == CheckDistanceBuffers

SpecBuffers == InitBuffers /\ [][NextBuffers]_vars

----------------------------------------------------------------------------
(***************************************************************************)
(* The rasterizer on its own: any polygon of the catalogue, anywhere, on   *)
(* any pair of ascending coordinate vectors.                               *)
(***************************************************************************)
MaxCoord == 3
MaxGridLen == 3

ShapeCatalogue ==
    { [exterior |-> SquareRing(2), holes |-> {}],
      [exterior |-> <<<<0, 0>>, <<2, 0>>, <<0, 2>>>>, holes |-> {}],
      [exterior |-> <<<<0, 0>>, <<3, 0>>, <<3, 1>>, <<1, 1>>, <<1, 3>>,
                      <<0, 3>>>>, holes |-> {}],
      [exterior |-> SquareRing(4),
       holes |-> {Translate(SquareRing(2), 1, 1)}] }

RasterOffsets == (-5)..(MaxCoord + 1)

\* Strictly ascending sequences of up to MaxGridLen coordinates in 0..MaxCoord.
AscendingVectors ==
    {v \in UNION {[1..n -> 0..MaxCoord] : n \in 1..MaxGridLen} :
        \A n \in 1..(Len(v) - 1) : v[n] < v[n + 1]}

InitRaster ==
    /\ BuffersIdle
    /\ LeadIdle
    /\ PipelineIdle
    /\ SpacingIdle
    /\ ProjIdle
    /\ IoIdle
    /\ \E shape \in ShapeCatalogue, dx \in RasterOffsets, dy \in RasterOffsets :
        polygon_object_xy = TranslatePolygon(shape, dx, dy)
    /\ grid_points_x_metres \in AscendingVectors
    /\ grid_points_y_metres \in AscendingVectors
    /\ raster_result = [status |-> "pending", rows |-> <<>>, columns |-> <<>>]

FindGridPoints ==
    /\ raster_result.status = "pending"
    /\ raster_result' = FindGridPointsInPolygon(
            polygon_object_xy, grid_points_x_metres, grid_points_y_metres)
    /\ UNCHANGED <<polygon_object_xy, grid_points_x_metres,
                   grid_points_y_metres>>
    /\ UNCHANGED <<bufferVars, leadVars, pipelineVars, spacingVars,
                   projVars, ioVars>>

NextRaster == FindGridPoints

SpecRaster == InitRaster /\ [][NextRaster]_vars

----------------------------------------------------------------------------
(***************************************************************************)
(* The lead times on their own: every accepted triple up to MaxLeadArg.    *)
(***************************************************************************)
MaxLeadArg == 7

InitLead ==
    /\ BuffersIdle
    /\ RasterIdle
    /\ PipelineIdle
    /\ SpacingIdle
    /\ ProjIdle
    /\ IoIdle
    /\ min_lead_time_sec \in 0..MaxLeadArg
    /\ max_lead_time_sec \in 0..MaxLeadArg
    /\ lead_time_resolution_sec \in 1..MaxLeadArg
    /\ LeadArgsAccepted(min_lead_time_sec, max_lead_time_sec,
                        lead_time_resolution_sec)
    /\ lead_times_seconds = <<>>

ComputeLeadTimes ==
    /\ lead_times_seconds = <<>>
    /\ LeadArgsAccepted(min_lead_time_sec, max_lead_time_sec,
                        lead_time_resolution_sec)
    /\ lead_times_seconds' = LeadTimesSeconds(
            min_lead_time_sec, max_lead_time_sec, lead_time_resolution_sec)
    /\ UNCHANGED <<min_lead_time_sec, max_lead_time_sec,
                   lead_time_resolution_sec>>
    /\ UNCHANGED <<bufferVars, rasterVars, pipelineVars, spacingVars,
                   projVars, ioVars>>

NextLead == ComputeLeadTimes

SpecLead == InitLead /\ [][NextLead]_vars

----------------------------------------------------------------------------
(***************************************************************************)
(* create_forecast_grids on a table of one or two storm objects, each a    *)
(* square of side 2 (buffer 1: the storm itself, min distance NaN) with,   *)
(* when the table has two buffer columns, the ring of width 1 around it    *)
(* (buffer 2, a polygon with a hole).  These calls leave smoothing_method   *)
(* at its default None and pass interp_to_latlng_grid = False.             *)
(***************************************************************************)
GridXMax == GridOrigin[1] + (NumGridColumns - 1) * GridSpacingX

StormPositionsX == <<-5, 0, 1, GridXMax - 2, GridXMax + 2>>
StormPositionsY == <<1>>
StormVelocities == <<<<0, 0>>, <<1, 0>>, <<-1, 0>>, <<0, 1>>>>
ValidTimes == {1, 2}
ForecastChoices == <<<<4, 6>>, <<6, 0>>>>
StormCounts == {1, 2}
BufferCounts == {1, 2}
LeadConfigs == {<<0, 2, 1>>, <<1, 3, 2>>}

BufferMinDistances == <<NaN, 0>>
BufferMaxDistances == <<0, 2>>

StormParams ==
    (DOMAIN StormPositionsX) \X (DOMAIN StormVelocities) \X ValidTimes
        \X (DOMAIN ForecastChoices)

ParamKey(c) == ((c[1] * 10 + c[2]) * 10 + c[3]) * 10 + c[4]

BufferPolygonsLatLng(px, py) ==
    <<[exterior |-> Translate(SquareRing(2), px + ProjectionCentre[1],
                              py + ProjectionCentre[2]),
       holes |-> {}],
      [exterior |-> Translate(SquareRing(4), px - 1 + ProjectionCentre[1],
                              py - 1 + ProjectionCentre[2]),
       holes |-> {Translate(SquareRing(2), px + ProjectionCentre[1],
                            py + ProjectionCentre[2])}]>>

MakeStorm(c, num_buffers) ==
    [valid_time_unix_sec  |-> c[3],
     east_velocity_m_s01  |-> StormVelocities[c[2]][1],
     north_velocity_m_s01 |-> StormVelocities[c[2]][2],
     latlng       |-> SubSeq(BufferPolygonsLatLng(StormPositionsX[c[1]],
                                                  StormPositionsY[1]),
                             1, num_buffers),
     xy           |-> [j \in 1..num_buffers |-> <<>>],
     forecast     |-> SubSeq(ForecastChoices[c[4]], 1, num_buffers),
     grid_rows    |-> [j \in 1..num_buffers |-> <<>>],
     grid_columns |-> [j \in 1..num_buffers |-> <<>>]]

StormTablesOver(params, num_buffers) ==
    {[n \in DOMAIN cs |-> MakeStorm(cs[n], num_buffers)] :
        cs \in {c \in UNION {[1..n -> params] : n \in StormCounts} :
                    \A n \in 1..(Len(c) - 1) :
                        ParamKey(c[n]) <= ParamKey(c[n + 1])}}

StormTables(num_buffers) == StormTablesOver(StormParams, num_buffers)

(***************************************************************************)
(* Calls that vary the remaining arguments, on stationary storms that sit  *)
(* on the grid or east of it: the smoothing method, interp_to_latlng_grid  *)
(* and the buffer columns of the table (their distances are read from the  *)
(* column names): none at all, a gap between the two buffers, an overlap   *)
(* of the two.                                                             *)
(***************************************************************************)
SmoothingChoices ==
    {"None", "gaussian", "cressman", "linear", "not a string"}

VariedBufferSets ==
    {[min |-> <<>>, max |-> <<>>],
     [min |-> <<NaN>>, max |-> <<0>>],
     [min |-> <<NaN, 0>>, max |-> <<0, 2>>],
     [min |-> <<NaN, 2>>, max |-> <<0, 4>>],
     [min |-> <<NaN, 0>>, max |-> <<2, 4>>]}

VariedStormParams ==
    {c \in StormParams :
        /\ StormPositionsX[c[1]] \in {0, GridXMax + 2}
        /\ StormVelocities[c[2]] = <<0, 0>>
        /\ c[4] = 1}

InitDefaultCall ==
    /\ smoothing_method = "None"
    /\ interp_to_latlng_grid = FALSE
    /\ \E num_buffers \in BufferCounts :
        /\ storm_object_table \in StormTables(num_buffers)
        /\ min_distances_metres = SubSeq(BufferMinDistances, 1, num_buffers)
        /\ max_distances_metres = SubSeq(BufferMaxDistances, 1, num_buffers)

InitVariedCall ==
    /\ smoothing_method \in SmoothingChoices
    /\ interp_to_latlng_grid \in BOOLEAN
    /\ \E buffers \in VariedBufferSets :
        /\ storm_object_table
            \in StormTablesOver(VariedStormParams, Len(buffers.min))
        /\ min_distances_metres = buffers.min
        /\ max_distances_metres = buffers.max

Init ==
    /\ InitDefaultCall \/ InitVariedCall
    /\ check_result = "pending"
    /\ \E cfg \in LeadConfigs :
        /\ min_lead_time_sec = cfg[1]
        /\ max_lead_time_sec = cfg[2]
        /\ lead_time_resolution_sec = cfg[3]
    /\ lead_times_seconds = <<>>
    /\ polygon_object_xy = [exterior |-> <<>>, holes |-> {}]
    /\ grid_points_x_metres = <<>>
    /\ grid_points_y_metres = <<>>
    /\ raster_result = [status |-> "idle", rows |-> <<>>, columns |-> <<>>]
    /\ pc = "start"
    /\ init_time_index = 0
    /\ this_storm_object_table = <<>>
    /\ lead_time_index = 0
    /\ this_extrap_storm_object_table = <<>>
    /\ this_probability_matrix_xy = <<>>
    /\ this_num_forecast_matrix = <<>>
    /\ gridded_forecast_dict = <<>>
    /\ error = "none"
    /\ latlng_forecast_dict = NoLatLngDict
    /\ returned_dict = NothingReturned
    /\ SpacingIdle
    /\ ProjIdle
    /\ IoIdle

NumXYRows == Len(grid_points_y_metres)
NumXYColumns == Len(grid_points_x_metres)
NumInitTimes == Len(InitTimesUnixSec(storm_object_table))

\* Lines 1217-1268: the first error met, in the order of the code: the
\* smoothing method, then len() of the buffer columns, which
\* _get_distance_buffer_columns returns as None when the table has none,
\* then _check_distance_buffers.
ArgumentError(method, min_distances, max_distances, p) ==
    IF SmoothingArgumentCheck(method) # "ok"
    THEN SmoothingArgumentCheck(method)
    ELSE IF Len(min_distances) = 0 THEN "TypeError"
    ELSE IF CheckDistanceBuffersWith(min_distances, max_distances, p) # "ok"
    THEN "ValueError"
    ELSE "none"

\* Lines 1208-1304: argument checks, lead times, buffer check, grid, result.
CheckArguments ==
    /\ pc = "start"
    /\ LeadArgsAccepted(min_lead_time_sec, max_lead_time_sec,
                        lead_time_resolution_sec)
    /\ \E p \in ArgSorts(max_distances_metres) :
        /\ error' = ArgumentError(smoothing_method, min_distances_metres,
                                  max_distances_metres, p)
        /\ check_result' =
            IF SmoothingArgumentCheck(smoothing_method) # "ok"
                \/ Len(min_distances_metres) = 0
            THEN check_result
            ELSE CheckDistanceBuffersWith(
                    min_distances_metres, max_distances_metres, p)
    /\ lead_times_seconds' =
            IF SmoothingArgumentCheck(smoothing_method) # "ok"
            THEN lead_times_seconds
            ELSE LeadTimesSeconds(min_lead_time_sec, max_lead_time_sec,
                                  lead_time_resolution_sec)
    /\ IF error' = "none"
       THEN /\ grid_points_x_metres' = DefaultGridX
            /\ grid_points_y_metres' = DefaultGridY
            /\ gridded_forecast_dict' =
                    [i \in 1..NumInitTimes |-> NoMatrix]
            /\ latlng_forecast_dict' =
                    InitialLatLngDict(interp_to_latlng_grid, NumInitTimes)
            /\ init_time_index' = 1
            /\ pc' = "select"
       ELSE /\ pc' = "error"
            /\ UNCHANGED <<gridVars, gridded_forecast_dict,
                           latlng_forecast_dict, init_time_index>>
    /\ UNCHANGED <<min_distances_metres, max_distances_metres,
                   min_lead_time_sec, max_lead_time_sec,
                   lead_time_resolution_sec, polygon_object_xy, raster_result,
                   storm_object_table, this_storm_object_table,
                   lead_time_index, this_extrap_storm_object_table,
                   this_probability_matrix_xy, this_num_forecast_matrix,
                   smoothing_method, interp_to_latlng_grid, returned_dict,
                   spacingVars, projVars, ioVars>>

\* What the steps of one initial time leave alone.
PipelineFrame ==
    UNCHANGED <<bufferVars, rasterVars, leadVars, storm_object_table,
                smoothing_method, interp_to_latlng_grid, returned_dict,
                spacingVars, projVars, ioVars>>

\* Lines 1307-1312
SelectStormObjects ==
    /\ pc = "select"
    /\ this_storm_object_table' = StormObjectsAtTime(
            storm_object_table,
            InitTimesUnixSec(storm_object_table)[init_time_index])
    /\ pc' = "project"
    /\ PipelineFrame
    /\ UNCHANGED <<init_time_index, lead_time_index,
                   this_extrap_storm_object_table, this_probability_matrix_xy,
                   this_num_forecast_matrix, gridded_forecast_dict,
                   latlng_forecast_dict, error>>

\* Lines 1314-1315
ProjectPolygons ==
    /\ pc = "project"
    /\ this_storm_object_table' =
            PolygonsFromLatLngToXY(this_storm_object_table)
    /\ pc' = "normalize"
    /\ PipelineFrame
    /\ UNCHANGED <<init_time_index, lead_time_index,
                   this_extrap_storm_object_table, this_probability_matrix_xy,
                   this_num_forecast_matrix, gridded_forecast_dict,
                   latlng_forecast_dict, error>>

\* Lines 1317-1319
NormalizeProbs ==
    /\ pc = "normalize"
    /\ this_storm_object_table' =
            NormalizeProbsByPolygonArea(this_storm_object_table)
    /\ pc' = "rasterize"
    /\ PipelineFrame
    /\ UNCHANGED <<init_time_index, lead_time_index,
                   this_extrap_storm_object_table, this_probability_matrix_xy,
                   this_num_forecast_matrix, gridded_forecast_dict,
                   latlng_forecast_dict, error>>

\* Lines 1321-1331: base rasterization, then the two zero matrices.
RasterizeBase ==
    /\ pc = "rasterize"
    /\ LET found == PolygonsToGridPoints(this_storm_object_table,
                        grid_points_x_metres, grid_points_y_metres)
       IN  IF found.status = "ok"
           THEN /\ this_storm_object_table' = found.table
                /\ this_probability_matrix_xy' = ProbabilityMatrix(
                        ZeroMatrix(NumXYRows, NumXYColumns),
                        OnesMatrix(NumXYRows, NumXYColumns))
                /\ this_num_forecast_matrix' =
                        ZeroMatrix(NumXYRows, NumXYColumns)
                /\ lead_time_index' = 1
                /\ pc' = "extrapolate"
                /\ error' = "none"
           ELSE /\ pc' = "error"
                /\ error' = "IndexError"
                /\ UNCHANGED <<this_storm_object_table,
                               this_probability_matrix_xy,
                               this_num_forecast_matrix, lead_time_index>>
    /\ PipelineFrame
    /\ UNCHANGED <<init_time_index, this_extrap_storm_object_table,
                   gridded_forecast_dict, latlng_forecast_dict>>

\* Lines 1339-1347
ExtrapolateLeadTime ==
    /\ pc = "extrapolate"
    /\ this_extrap_storm_object_table' = ExtrapPolygonsToGridPoints(
            this_storm_object_table,
            ExtrapolatePolygons(this_storm_object_table,
                                lead_times_seconds[lead_time_index]),
            GridSpacingX, GridSpacingY)
    /\ pc' = "accumulate"
    /\ PipelineFrame
    /\ UNCHANGED <<init_time_index, this_storm_object_table, lead_time_index,
                   this_probability_matrix_xy, this_num_forecast_matrix,
                   gridded_forecast_dict, latlng_forecast_dict, error>>

\* Lines 1349-1369, and the step of the loop over lead times.
AccumulateLeadTime ==
    /\ pc = "accumulate"
    /\ LET acc == AccumulateFrom(
                    [count |-> this_num_forecast_matrix,
                     sum   |-> [cell \in DOMAIN this_probability_matrix_xy |->
                                    this_probability_matrix_xy[cell].num],
                     error |-> "none"],
                    this_extrap_storm_object_table, this_storm_object_table,
                    1, NumXYRows, NumXYColumns)
       IN  /\ this_num_forecast_matrix' = acc.count
           /\ this_probability_matrix_xy' = ProbabilityMatrix(
                    acc.sum, OnesMatrix(NumXYRows, NumXYColumns))
           /\ error' = acc.error
           /\ IF acc.error # "none"
              THEN pc' = "error" /\ UNCHANGED lead_time_index
              ELSE IF lead_time_index < Len(lead_times_seconds)
              THEN pc' = "extrapolate"
                   /\ lead_time_index' = lead_time_index + 1
              ELSE pc' = "finalize" /\ UNCHANGED lead_time_index
    /\ PipelineFrame
    /\ UNCHANGED <<init_time_index, this_storm_object_table,
                   this_extrap_storm_object_table, gridded_forecast_dict,
                   latlng_forecast_dict>>

\* Lines 1371-1375: the division, and the test of smoothing_method.
FinalizeGrid ==
    /\ pc = "finalize"
    /\ this_probability_matrix_xy' = DivideMatrices(
            this_probability_matrix_xy, this_num_forecast_matrix)
    /\ pc' = IF smoothing_method = "None" THEN "store" ELSE "smooth"
    /\ PipelineFrame
    /\ UNCHANGED <<init_time_index, this_storm_object_table, lead_time_index,
                   this_extrap_storm_object_table, this_num_forecast_matrix,
                   gridded_forecast_dict, latlng_forecast_dict, error>>

\* Lines 1376-1393
SmoothGrid ==
    /\ pc = "smooth"
    /\ this_probability_matrix_xy' =
            ApplySmoothing(this_probability_matrix_xy, smoothing_method)
    /\ pc' = "store"
    /\ PipelineFrame
    /\ UNCHANGED <<init_time_index, this_storm_object_table, lead_time_index,
                   this_extrap_storm_object_table, this_num_forecast_matrix,
                   gridded_forecast_dict, latlng_forecast_dict, error>>

\* The step of the loop over initial times; after the last one, line 1443.
NextInitTimeOrReturn ==
    IF init_time_index < NumInitTimes
    THEN pc' = "select" /\ init_time_index' = init_time_index + 1
    ELSE pc' = "return" /\ UNCHANGED init_time_index

\* Lines 1399-1407
StoreGrid ==
    /\ pc = "store"
    /\ gridded_forecast_dict' =
            [gridded_forecast_dict EXCEPT ![init_time_index] =
                [set |-> TRUE, matrix |-> this_probability_matrix_xy]]
    /\ IF interp_to_latlng_grid
       THEN pc' = "interp" /\ UNCHANGED init_time_index
       ELSE NextInitTimeOrReturn
    /\ PipelineFrame
    /\ UNCHANGED <<this_storm_object_table, lead_time_index,
                   this_extrap_storm_object_table, this_probability_matrix_xy,
                   this_num_forecast_matrix, latlng_forecast_dict, error>>

\* Lines 1409-1441: the grid vectors are stored at the first initial time.
InterpToLatLngGrid ==
    /\ pc = "interp"
    /\ LET interp == InterpProbabilitiesToLatLngGrid(
                        this_probability_matrix_xy,
                        grid_points_x_metres, grid_points_y_metres)
           stored == [latlng_forecast_dict EXCEPT
                        !.probabilities[init_time_index] =
                            [set |-> TRUE, matrix |-> interp.matrix]]
       IN  latlng_forecast_dict' =
                IF init_time_index # 1
                THEN stored
                ELSE [stored EXCEPT !.has_grid = TRUE,
                                    !.latitudes = interp.latitudes,
                                    !.longitudes = interp.longitudes]
    /\ NextInitTimeOrReturn
    /\ PipelineFrame
    /\ UNCHANGED <<this_storm_object_table, lead_time_index,
                   this_extrap_storm_object_table, this_probability_matrix_xy,
                   this_num_forecast_matrix, gridded_forecast_dict, error>>

\* Line 1443
ReturnDict ==
    /\ pc = "return"
    /\ returned_dict' =
            [returned |-> TRUE,
             init_times |-> InitTimesUnixSec(storm_object_table),
             xy_probabilities |-> gridded_forecast_dict,
             latlng |-> latlng_forecast_dict]
    /\ pc' = "done"
    /\ UNCHANGED <<bufferVars, rasterVars, leadVars, storm_object_table,
                   smoothing_method, interp_to_latlng_grid, spacingVars,
                   projVars, ioVars, init_time_index, this_storm_object_table,
                   lead_time_index, this_extrap_storm_object_table,
                   this_probability_matrix_xy, this_num_forecast_matrix,
                   gridded_forecast_dict, latlng_forecast_dict, error>>

Next ==
    \/ CheckArguments
    \/ SelectStormObjects
    \/ ProjectPolygons
    \/ NormalizeProbs
    \/ RasterizeBase
    \/ ExtrapolateLeadTime
    \/ AccumulateLeadTime
    \/ FinalizeGrid
    \/ SmoothGrid
    \/ StoreGrid
    \/ InterpToLatLngGrid
    \/ ReturnDict

Spec == Init /\ [][Next]_vars

----------------------------------------------------------------------------
(***************************************************************************)
(* _normalize_probs_by_polygon_area on its own: a table of one storm       *)
(* object with one or two buffers, whose x-y polygons have area 4, 6, 12   *)
(* (= pi r^2) or 0 and whose forecast probabilities run from below 0 to    *)
(* above 1.  storm_object_table keeps the table as it was passed.          *)
(***************************************************************************)
ProbOvershoot == 2

NormalizePolygons ==
    {[exterior |-> SquareRing(2), holes |-> {}],
     [exterior |-> <<<<0, 0>>, <<3, 0>>, <<3, 2>>, <<0, 2>>>>, holes |-> {}],
     [exterior |-> SquareRing(4), holes |-> {Translate(SquareRing(2), 1, 1)}],
     [exterior |-> <<<<0, 0>>, <<1, 0>>, <<2, 0>>>>, holes |-> {}]}

NormalizeForecasts == (0 - ProbOvershoot)..(ProbDenom + ProbOvershoot)

NormalizeTables ==
    {<<[valid_time_unix_sec  |-> 1,
        east_velocity_m_s01  |-> 0,
        north_velocity_m_s01 |-> 0,
        latlng       |-> [j \in DOMAIN xy |->
                            TranslatePolygon(xy[j], ProjectionCentre[1],
                                             ProjectionCentre[2])],
        xy           |-> xy,
        forecast     |-> f,
        grid_rows    |-> [j \in DOMAIN xy |-> <<>>],
        grid_columns |-> [j \in DOMAIN xy |-> <<>>]]>> :
        xy \in UNION {[1..n -> NormalizePolygons] : n \in BufferCounts},
        f \in UNION {[1..n -> NormalizeForecasts] : n \in BufferCounts}}

InitNormalize ==
    /\ BuffersIdle
    /\ RasterIdle
    /\ LeadIdle
    /\ SpacingIdle
    /\ ProjIdle
    /\ IoIdle
    /\ storm_object_table \in
            {t \in NormalizeTables : Len(t[1].xy) = Len(t[1].forecast)}
    /\ this_storm_object_table = storm_object_table
    /\ pc = "normalize"
    /\ init_time_index = 1
    /\ lead_time_index = 0
    /\ this_extrap_storm_object_table = <<>>
    /\ this_probability_matrix_xy = <<>>
    /\ this_num_forecast_matrix = <<>>
    /\ gridded_forecast_dict = <<>>
    /\ error = "none"
    /\ smoothing_method = "None"
    /\ interp_to_latlng_grid = FALSE
    /\ latlng_forecast_dict = NoLatLngDict
    /\ returned_dict = NothingReturned

NextNormalize == NormalizeProbs

SpecNormalize == InitNormalize /\ [][NextNormalize]_vars

----------------------------------------------------------------------------
(***************************************************************************)
(* _create_xy_grid on a table of one or two storm objects with one or two  *)
(* buffers (the square of side 2 and the ring around it), whose x-y        *)
(* polygons are already in the table.                                      *)
(***************************************************************************)
MAX_STORM_SPEED_M_S01 == 60

GridStormCorners == {-5, 0, 3} \X {0, 4}
GridSpacings == {20, 50, 60}
GridMaxLeadTimes == {1, 2}

GridStorm(corner, num_buffers) ==
    LET latlng == SubSeq(BufferPolygonsLatLng(corner[1], corner[2]),
                         1, num_buffers)
    IN  [valid_time_unix_sec  |-> 1,
         east_velocity_m_s01  |-> 0,
         north_velocity_m_s01 |-> 0,
         latlng       |-> latlng,
         xy           |-> [j \in 1..num_buffers |->
                            ProjectPolygonToXY(latlng[j])],
         forecast     |-> SubSeq(ForecastChoices[1], 1, num_buffers),
         grid_rows    |-> [j \in 1..num_buffers |-> <<>>],
         grid_columns |-> [j \in 1..num_buffers |-> <<>>]]

GridTables ==
    {[n \in DOMAIN corners |-> GridStorm(corners[n], num_buffers)] :
        corners \in UNION {[1..n -> GridStormCorners] : n \in StormCounts},
        num_buffers \in BufferCounts}

\* Lines 388-408: the extent of the exteriors of all buffers of all storm
\* objects, on axis 1 (x) or 2 (y).
ExteriorCoords(table, axis) ==
    UNION {UNION {{table[k].xy[j].exterior[n][axis] :
                        n \in DOMAIN table[k].xy[j].exterior} :
                    j \in DOMAIN table[k].xy} :
            k \in DOMAIN table}

\* Lines 410-430, one axis.
CreateXYGridAxis(coords, spacing, max_lead_time) ==
    LET min_metres == FloorToNearest(
            Min(coords) - MAX_STORM_SPEED_M_S01 * max_lead_time, spacing)
        max_metres == CeilingToNearest(
            Max(coords) + MAX_STORM_SPEED_M_S01 * max_lead_time, spacing)
        num == 1 + RoundRatioHalfEven(max_metres - min_metres, spacing)
    IN  XYGridPoints(min_metres, spacing, num)

InitGrid ==
    /\ BuffersIdle
    /\ ProjIdle
    /\ IoIdle
    /\ polygon_object_xy = [exterior |-> <<>>, holes |-> {}]
    /\ raster_result = [status |-> "idle", rows |-> <<>>, columns |-> <<>>]
    /\ grid_points_x_metres = <<>>
    /\ grid_points_y_metres = <<>>
    /\ min_lead_time_sec = 0
    /\ max_lead_time_sec \in GridMaxLeadTimes
    /\ lead_time_resolution_sec = 0
    /\ lead_times_seconds = <<>>
    /\ storm_object_table \in GridTables
    /\ x_spacing_metres \in GridSpacings
    /\ y_spacing_metres \in GridSpacings
    /\ pc = "create_xy_grid"
    /\ init_time_index = 0
    /\ this_storm_object_table = <<>>
    /\ lead_time_index = 0
    /\ this_extrap_storm_object_table = <<>>
    /\ this_probability_matrix_xy = <<>>
    /\ this_num_forecast_matrix = <<>>
    /\ gridded_forecast_dict = <<>>
    /\ error = "none"
    /\ smoothing_method = "None"
    /\ interp_to_latlng_grid = FALSE
    /\ latlng_forecast_dict = NoLatLngDict
    /\ returned_dict = NothingReturned

\* _create_xy_grid
CreateXYGrid ==
    /\ pc = "create_xy_grid"
    /\ grid_points_x_metres' = CreateXYGridAxis(
            ExteriorCoords(storm_object_table, 1), x_spacing_metres,
            max_lead_time_sec)
    /\ grid_points_y_metres' = CreateXYGridAxis(
            ExteriorCoords(storm_object_table, 2), y_spacing_metres,
            max_lead_time_sec)
    /\ pc' = "xy_grid_created"
    /\ UNCHANGED <<bufferVars, leadVars, spacingVars, projVars, ioVars,
                   polygon_object_xy, raster_result, storm_object_table,
                   init_time_index, this_storm_object_table, lead_time_index,
                   this_extrap_storm_object_table, this_probability_matrix_xy,
                   this_num_forecast_matrix, gridded_forecast_dict, error,
                   smoothing_method, interp_to_latlng_grid,
                   latlng_forecast_dict, returned_dict>>

NextGrid == CreateXYGrid

SpecGrid == InitGrid /\ [][NextGrid]_vars

----------------------------------------------------------------------------
(***************************************************************************)
(* gewittergefahr/gg_utils/projections.py: project_latlng_to_xy followed   *)
(* by project_xy_to_latlng on the coordinates it returned.                 *)
(*                                                                         *)
(* A coordinate array is a function from index tuples (<<i>> for a 1-D     *)
(* array, <<i, j>> for a 2-D array) to values; a value is <<v>> for the    *)
(* number v and <<>> for NaN.  Degrees and metres are integers.            *)
(***************************************************************************)
NanValue == <<>>

Real(v) == <<v>>

IsNanValue(value) == value = NanValue

\* What pyproj returns where it cannot project (1e30).
HugeVal == 1000 * 1000

\* error_checking.assert_is_valid_latitude raises for this latitude.
LatitudeIsInvalid(value) == value[1] < -90 \/ value[1] > 90

\* A check that does not skip NaN.
LatitudeCheckWithoutSkip(value) ==
    IsNanValue(value) \/ LatitudeIsInvalid(value)

\* Lines 77-80: one iteration of the loop over the latitudes.
LatitudeCheckRaises(value) ==
    IF IsNanValue(value) THEN FALSE ELSE LatitudeIsInvalid(value)

\* longitude_conversion.convert_lng_positive_in_west, one element.
ConvertLngPositiveInWest(value) ==
    IF IsNanValue(value) THEN value
    ELSE IF value[1] < 0 THEN Real(value[1] + 360) ELSE value

\* A longitude difference brought into (-180, 180].
NormalizeDelta(d) == ((d + 179) % 360) - 179

(***************************************************************************)
(* The pyproj projection object, forward and inverse, on one point.  Both  *)
(* families are one-to-one away from the poles and depend on the longitude *)
(* through its difference from the central meridian: "lcc" lets the        *)
(* meridians converge on the north pole, "aeqd" is centred on the equator. *)
(***************************************************************************)
CentralLongitude(name) == IF name = "lcc" THEN 270 ELSE 90

ProjForward(name, lng, lat) ==
    IF IsNanValue(lng) \/ IsNanValue(lat)
    THEN <<Real(HugeVal), Real(HugeVal)>>
    ELSE LET delta == NormalizeDelta(lng[1] - CentralLongitude(name))
         IN  IF name = "lcc"
             THEN <<Real(delta * (90 - lat[1])), Real(lat[1])>>
             ELSE <<Real(delta), Real(lat[1])>>

ProjInverse(name, x, y) ==
    IF IsNanValue(x) \/ IsNanValue(y) \/ 90 - y[1] <= 0
    THEN <<Real(HugeVal), Real(HugeVal)>>
    ELSE LET delta == IF name = "lcc" THEN x[1] \div (90 - y[1]) ELSE x[1]
         IN  <<Real(NormalizeDelta(CentralLongitude(name) + delta)),
               Real(y[1])>>

\* array + offset and array - offset (NaN stays NaN).
AddFalseOffset(array, offset) ==
    [idx \in DOMAIN array |->
        IF IsNanValue(array[idx]) THEN NanValue
        ELSE Real(array[idx][1] + offset)]

\* The offset added a second time instead of taken away.
OffsetAddedAgain(array, offset) ==
    [idx \in DOMAIN array |->
        IF IsNanValue(array[idx]) THEN NanValue
        ELSE Real(array[idx][1] + offset)]

SubtractFalseOffset(array, offset) ==
    [idx \in DOMAIN array |->
        IF IsNanValue(array[idx]) THEN NanValue
        ELSE Real(array[idx][1] - offset)]

\* numpy.where(nan_flags)[0]: the first index of every flagged position.
NanIndices(first, second) ==
    {idx[1] : idx \in {i \in DOMAIN first :
                        IsNanValue(first[i]) \/ IsNanValue(second[i])}}

\* array[nan_indices] = numpy.nan: an integer index array selects along
\* the first axis.
SetNanAt(array, nan_indices) ==
    [idx \in DOMAIN array |->
        IF idx[1] \in nan_indices THEN NanValue ELSE array[idx]]

\* Lines 85-100
ProjectLatLngToXY(name, lats, lngs, false_easting, false_northing) ==
    LET converted == [idx \in DOMAIN lngs |->
                        ConvertLngPositiveInWest(lngs[idx])]
        nan_indices == NanIndices(lats, converted)
        projected == [idx \in DOMAIN lats |->
                        ProjForward(name, converted[idx], lats[idx])]
        xs == SetNanAt([idx \in DOMAIN lats |-> projected[idx][1]],
                       nan_indices)
        ys == SetNanAt([idx \in DOMAIN lats |-> projected[idx][2]],
                       nan_indices)
    IN  [x |-> AddFalseOffset(xs, false_easting),
         y |-> AddFalseOffset(ys, false_northing)]

\* Lines 132-143
ProjectXYToLatLng(name, xs, ys, false_easting, false_northing) ==
    LET nan_indices == NanIndices(xs, ys)
        shifted_x == SubtractFalseOffset(xs, false_easting)
        shifted_y == SubtractFalseOffset(ys, false_northing)
        inverted == [idx \in DOMAIN xs |->
                        ProjInverse(name, shifted_x[idx], shifted_y[idx])]
        lngs == SetNanAt([idx \in DOMAIN xs |-> inverted[idx][1]],
                         nan_indices)
        lats == SetNanAt([idx \in DOMAIN xs |-> inverted[idx][2]],
                         nan_indices)
    IN  [lat |-> lats,
         lng |-> [idx \in DOMAIN lngs |-> ConvertLngPositiveInWest(lngs[idx])]]

\* The arrays passed: 1-D of length 2 and 2-D of shape 2 x 2, filled with
\* (latitude, longitude) pairs.
LatLngPairs ==
    {<<NanValue, Real(90)>>, <<Real(45), NanValue>>, <<Real(45), Real(-90)>>,
     <<Real(-89), Real(270)>>, <<Real(0), Real(180)>>, <<Real(95), Real(0)>>}

FalseOffsets == {<<0, 0>>, <<7, -3>>}

OneDimIndices == {<<1>>, <<2>>}

InitProjection ==
    /\ BuffersIdle
    /\ RasterIdle
    /\ LeadIdle
    /\ PipelineIdle
    /\ SpacingIdle
    /\ IoIdle
    /\ projection_name \in {"lcc", "aeqd"}
    /\ \E indices \in {OneDimIndices, (1..2) \X (1..2)} :
        \E pairs \in [indices -> LatLngPairs] :
            /\ latitudes_deg = [idx \in indices |-> pairs[idx][1]]
            /\ longitudes_deg = [idx \in indices |-> pairs[idx][2]]
    /\ \E offsets \in FalseOffsets :
        /\ false_easting_metres = offsets[1]
        /\ false_northing_metres = offsets[2]
    /\ x_coords_metres = <<>>
    /\ y_coords_metres = <<>>
    /\ out_latitudes_deg = <<>>
    /\ out_longitudes_deg = <<>>
    /\ proj_pc = "start"

ProjectionFrame ==
    UNCHANGED <<bufferVars, rasterVars, leadVars, pipelineVars, spacingVars,
                ioVars, projection_name, latitudes_deg, longitudes_deg,
                false_easting_metres, false_northing_metres>>

\* project_latlng_to_xy, lines 76-80: the loop over the latitudes.
CheckLatitudes ==
    /\ proj_pc = "start"
    /\ proj_pc' =
            IF \E idx \in DOMAIN latitudes_deg :
                    LatitudeCheckRaises(latitudes_deg[idx])
            THEN "error"
            ELSE "checked"
    /\ ProjectionFrame
    /\ UNCHANGED <<x_coords_metres, y_coords_metres, out_latitudes_deg,
                   out_longitudes_deg>>

\* project_latlng_to_xy, lines 82-100.
ApplyProjection ==
    /\ proj_pc = "checked"
    /\ LET xy == ProjectLatLngToXY(projection_name, latitudes_deg,
                    longitudes_deg, false_easting_metres,
                    false_northing_metres)
       IN  /\ x_coords_metres' = xy.x
           /\ y_coords_metres' = xy.y
    /\ proj_pc' = "projected"
    /\ ProjectionFrame
    /\ UNCHANGED <<out_latitudes_deg, out_longitudes_deg>>

\* project_xy_to_latlng on the result, with the same offsets.
InvertProjection ==
    /\ proj_pc = "projected"
    /\ LET latlng == ProjectXYToLatLng(projection_name, x_coords_metres,
                        y_coords_metres, false_easting_metres,
                        false_northing_metres)
       IN  /\ out_latitudes_deg' = latlng.lat
           /\ out_longitudes_deg' = latlng.lng
    /\ proj_pc' = "inverted"
    /\ ProjectionFrame
    /\ UNCHANGED <<x_coords_metres, y_coords_metres>>

NextProjection ==
    \/ CheckLatitudes
    \/ ApplyProjection
    \/ InvertProjection

SpecProjection == InitProjection /\ [][NextProjection]_vars

----------------------------------------------------------------------------
(***************************************************************************)
(* gewittergefahr/gg_io/hfmetar_io.py: the wind parsers.  A word is a      *)
(* sequence of one-character strings; a parsed value is <<v>> for the      *)
(* number v and <<>> for NaN, as in the projections.                       *)
(***************************************************************************)
DigitCharacters == <<"0", "1", "2", "3", "4", "5", "6", "7", "8", "9">>

IsDigit(c) == \E d \in DOMAIN DigitCharacters : DigitCharacters[d] = c

DigitValue(c) ==
    (CHOOSE d \in DOMAIN DigitCharacters : DigitCharacters[d] = c) - 1

RECURSIVE DigitsValue(_)
DigitsValue(string) ==
    IF string = <<>> THEN 0
    ELSE 10 * DigitsValue(SubSeq(string, 1, Len(string) - 1))
         + DigitValue(string[Len(string)])

\* float(string) with "except ValueError: numpy.nan", for strings of digits,
\* letters, "+" and ">": a number is an optional "+" and at least one digit.
FloatOrNan(string) ==
    LET body == IF string # <<>> /\ string[1] = "+"
                THEN Tail(string) ELSE string
    IN  IF body # <<>> /\ \A n \in DOMAIN body : IsDigit(body[n])
        THEN Real(DigitsValue(body))
        ELSE NanValue

AllNan == <<NanValue, NanValue, NanValue, NanValue>>

\* The four wind fields read in place, whatever follows them.
ParseWindFields(line_words) ==
    IF Len(line_words) < 4 THEN AllNan
    ELSE <<FloatOrNan(line_words[2]), FloatOrNan(line_words[1]),
           FloatOrNan(line_words[4]), FloatOrNan(line_words[3])>>

\* _parse_1minute_wind_from_line: words[-4] .. words[-1].
Parse1MinuteWindFromLine(line_words) ==
    LET n == Len(line_words)
    IN  IF n < 4 THEN AllNan
        ELSE <<FloatOrNan(line_words[n - 2]), FloatOrNan(line_words[n - 3]),
               FloatOrNan(line_words[n]), FloatOrNan(line_words[n - 1])>>

\* str.upper, str.find (0-based, -1 when absent) and the slice [from:to].
UpperCharacter(c) ==
    IF c = "k" THEN "K" ELSE IF c = "t" THEN "T" ELSE IF c = "g" THEN "G"
    ELSE c

Upper(string) == [n \in DOMAIN string |-> UpperCharacter(string[n])]

Find(string, pattern) ==
    LET hits == {i \in 0..(Len(string) - Len(pattern)) :
                    SubSeq(string, i + 1, i + Len(pattern)) = pattern}
    IN  IF hits = {} THEN -1 ELSE Min(hits)

Slice(string, from, to) == SubSeq(string, from + 1, Min({to, Len(string)}))

AutoWord == <<"A", "U", "T", "O">>

\* _parse_5minute_wind_from_line, from the wind string on (lines 151-196).
ParseWindString(word) ==
    LET wind_string == Upper(word)
        index_of_kt == Find(wind_string, <<"K", "T">>)
        index_of_g  == Find(wind_string, <<"G">>)
        speed_end   == IF index_of_g = -1 THEN index_of_kt ELSE index_of_g
    IN  IF index_of_kt = -1 THEN AllNan
        ELSE IF speed_end <= 3 THEN AllNan
        ELSE IF index_of_g # -1 /\ index_of_kt <= index_of_g + 1 THEN AllNan
        ELSE <<FloatOrNan(Slice(wind_string, 3, speed_end)),
               FloatOrNan(Slice(wind_string, 0, 3)),
               IF index_of_g = -1 THEN NanValue
               ELSE FloatOrNan(Slice(wind_string, index_of_g + 1,
                                     index_of_kt)),
               NanValue>>

\* The wind string taken from word 7 whether or not it is "AUTO".
WordSevenAlways(line_words) ==
    IF Len(line_words) < 7 THEN AllNan
    ELSE ParseWindString(line_words[7])

\* _parse_5minute_wind_from_line
Parse5MinuteWindFromLine(line_words) ==
    IF Len(line_words) < 7 THEN AllNan
    ELSE IF line_words[7] = AutoWord
    THEN IF Len(line_words) < 8 THEN AllNan
         ELSE ParseWindString(line_words[8])
    ELSE ParseWindString(line_words[7])

\* Lines of a 1-minute file: words before the wind fields, the four wind
\* fields, and what follows them (nothing, a runway field of one word or of
\* two); and lines too short to hold the wind fields.
WindFieldChoices == {<<"2", "0", "4">>, <<"8">>, <<"1", "2", ">">>}

WordsBeforeWind == {<<>>, <<<<"N">>>>}

WordsAfterWind ==
    {<<>>, <<<<"1", "7", "L", "6", "0", "+">>>>,
     <<<<"1", "3">>, <<"6", "0", "+">>>>}

\* Lines of a 5-minute file: five or six words, then "AUTO" or not, then a
\* wind token or not, then a further word or not.
WindTokens ==
    {<<"0", "2", "0", "0", "8", "K", "T">>,
     <<"0", "2", "0", "0", "8", "G", "1", "3", "K", "T">>,
     <<"0", "2", "0", "0", "8">>,
     <<"0", "8", "K", "T">>,
     <<"0", "2", "0", "K", "T">>,
     <<"0", "2", "0", "0", "8", "G", "1", "3">>,
     <<"0", "8", "G", "1", "3", "K", "T">>,
     <<"0", "2", "0", "G", "1", "3", "K", "T">>,
     <<"0", "2", "0", "0", "8", "G", "K", "T">>,
     <<"K", "T">>,
     <<"0", "2", "0", "0", "8", "k", "t">>,
     <<"0", "2", "0", "0", "8", "K", "T", "G">>,
     <<"1", "2", "0", "1", "0", "5", "G", "1", "1", "3", "K", "T">>}

LeadingWords5Minute ==
    {[n \in 1..k |-> <<"5", "N">>] : k \in {5, 6}}

Lines5Minute ==
    {leading \o auto \o token \o rest :
        leading \in LeadingWords5Minute,
        auto \in {<<>>, <<AutoWord>>},
        token \in {<<>>} \cup {<<t>> : t \in WindTokens},
        rest \in {<<>>, <<<<"N">>>>}}

FilesIdle ==
    /\ station_id = ""
    /\ top_directory_name = ""
    /\ month_unix_sec = 0
    /\ raw_file_exists = FALSE
    /\ raise_error_if_missing = FALSE
    /\ raw_file_name = <<>>

InitWind ==
    /\ BuffersIdle
    /\ RasterIdle
    /\ LeadIdle
    /\ PipelineIdle
    /\ SpacingIdle
    /\ ProjIdle
    /\ GeneratorIdle
    /\ FilesIdle
    /\ wind_tuple = <<>>
    /\ \/ /\ metar_pc = "parse_1minute"
          /\ \/ /\ wind_fields \in [1..4 -> WindFieldChoices]
                /\ \E before \in WordsBeforeWind : \E after \in WordsAfterWind :
                    words = before \o wind_fields \o after
             \/ /\ wind_fields = <<>>
                /\ words \in WordsBeforeWind
       \/ /\ metar_pc = "parse_5minute"
          /\ wind_fields = <<>>
          /\ words \in Lines5Minute

WindFrame ==
    UNCHANGED <<bufferVars, rasterVars, leadVars, pipelineVars, spacingVars,
                projVars, generatorVars, words, wind_fields, station_id,
                top_directory_name,
                month_unix_sec, raw_file_exists, raise_error_if_missing,
                raw_file_name>>

Parse1MinuteWind ==
    /\ metar_pc = "parse_1minute"
    /\ wind_tuple' = Parse1MinuteWindFromLine(words)
    /\ metar_pc' = "returned_1minute"
    /\ WindFrame

Parse5MinuteWind ==
    /\ metar_pc = "parse_5minute"
    /\ wind_tuple' = Parse5MinuteWindFromLine(words)
    /\ metar_pc' = "returned_5minute"
    /\ WindFrame

NextWind ==
    \/ Parse1MinuteWind
    \/ Parse5MinuteWind

SpecWind == InitWind /\ [][NextWind]_vars

----------------------------------------------------------------------------
(***************************************************************************)
(* gewittergefahr/gg_io/hfmetar_io.py: names of raw files.  A file name is *)
(* kept as its parts; the month is a sequence of digit characters.         *)
(***************************************************************************)
PATHLESS_FILE_NAME_PREFIX_1MINUTE == "64060"

PATHLESS_FILE_NAME_PREFIX_5MINUTE == "64010"

RAW_FILE_EXTENSION == ".dat"

\* time_conversion.unix_sec_to_string(., '%Y%m'): the UTC calendar year and
\* month that hold the time, from the count of days since 0000-03-01.
YearAndMonth(unix_sec) ==
    LET z   == (unix_sec \div 86400) + 719468
        era == z \div 146097
        doe == z - era * 146097
        yoe == (doe - doe \div 1460 + doe \div 36524 - doe \div 146096)
               \div 365
        doy == doe - (365 * yoe + yoe \div 4 - yoe \div 100)
        mp  == (5 * doy + 2) \div 153
        month == IF mp < 10 THEN mp + 3 ELSE mp - 9
        year  == yoe + era * 400 + (IF month <= 2 THEN 1 ELSE 0)
    IN  <<year, month>>

\* The last num_digits decimal digits of the number, zero-padded.
ZeroPadded(number, num_digits) ==
    [n \in 1..num_digits |->
        DigitCharacters[((number \div Pow(10, num_digits - n)) % 10) + 1]]

UnixSecToMonthString(unix_sec) ==
    ZeroPadded(YearAndMonth(unix_sec)[1], 4)
        \o ZeroPadded(YearAndMonth(unix_sec)[2], 2)

PathlessFileName(prefix, station, unix_sec) ==
    <<prefix, station, UnixSecToMonthString(unix_sec), RAW_FILE_EXTENSION>>

GetPathlessRaw1MinuteFileName(station, unix_sec) ==
    PathlessFileName(PATHLESS_FILE_NAME_PREFIX_1MINUTE, station, unix_sec)

GetPathlessRaw5MinuteFileName(station, unix_sec) ==
    PathlessFileName(PATHLESS_FILE_NAME_PREFIX_5MINUTE, station, unix_sec)

\* Sep 2017 (the month of the unit tests), the first second of 1970, the
\* leap day of 2000, and the seconds on both sides of two month ends.
MonthsUnixSec ==
    {1506194267, 0, 951782400, 1506815999, 1506816000, 1483228799}

StationIds == {"CYEG", "KHKA"}

TopDirectoryNames ==
    {"hfmetar/1minute/raw_files", "hfmetar/5minute/raw_files"}

InitFiles ==
    /\ BuffersIdle
    /\ RasterIdle
    /\ LeadIdle
    /\ PipelineIdle
    /\ SpacingIdle
    /\ ProjIdle
    /\ GeneratorIdle
    /\ words = <<>>
    /\ wind_fields = <<>>
    /\ wind_tuple = <<>>
    /\ station_id \in StationIds
    /\ top_directory_name \in TopDirectoryNames
    /\ month_unix_sec \in MonthsUnixSec
    /\ raw_file_exists \in BOOLEAN
    /\ raise_error_if_missing \in BOOLEAN
    /\ raw_file_name = <<>>
    /\ metar_pc \in {"find_1minute", "find_5minute"}

FilesFrame ==
    UNCHANGED <<bufferVars, rasterVars, leadVars, pipelineVars, spacingVars,
                projVars, generatorVars, words, wind_fields, wind_tuple,
                station_id, top_directory_name, month_unix_sec,
                raw_file_exists, raise_error_if_missing>>

\* The body shared by find_local_raw_1minute_file and _5minute_file; the
\* file's presence on disk is raw_file_exists.
FindLocalRawFile(pathless_file_name, returned) ==
    LET file_name == <<top_directory_name, station_id, pathless_file_name>>
    IN  IF raise_error_if_missing /\ ~raw_file_exists
        THEN /\ metar_pc' = "error"
             /\ UNCHANGED raw_file_name
        ELSE /\ metar_pc' = returned
             /\ raw_file_name' = file_name

FindLocalRaw1MinuteFile ==
    /\ metar_pc = "find_1minute"
    /\ FindLocalRawFile(
           GetPathlessRaw1MinuteFileName(station_id, month_unix_sec),
           "found_1minute")
    /\ FilesFrame

FindLocalRaw5MinuteFile ==
    /\ metar_pc = "find_5minute"
    /\ FindLocalRawFile(
           GetPathlessRaw5MinuteFileName(station_id, month_unix_sec),
           "found_5minute")
    /\ FilesFrame

NextFiles ==
    \/ FindLocalRaw1MinuteFile
    \/ FindLocalRaw5MinuteFile

SpecFiles == InitFiles /\ [][NextFiles]_vars

----------------------------------------------------------------------------
(***************************************************************************)
(* gewittergefahr/deep_learning/training_validation_io.py:                 *)
(* storm_image_generator_2d.  The images themselves are left out: the      *)
(* predictor matrix is kept as its number of rows (examples), the target   *)
(* values as they are.  A read returns None or the labels of the storm     *)
(* objects in the file, -1 for a storm object without label.               *)
(***************************************************************************)
NumClasses == 2

MaxImageTimes == 3

MaxImageTimesInMemory == 4

\* What read_storm_images_and_labels may return: None (kept as "None" in a
\* record), no storm objects, storm objects without labels, and files with
\* five and six labelled storm objects.
ReadResults ==
    {[is_none |-> TRUE, label_values |-> <<>>],
     [is_none |-> FALSE, label_values |-> <<>>],
     [is_none |-> FALSE, label_values |-> <<-1, -1>>],
     [is_none |-> FALSE, label_values |-> <<0, 1, 0, 0, 0>>],
     [is_none |-> FALSE, label_values |-> <<1, -1, 0, 0, 1, 1, 0>>]}

\* class_fractions_to_sample: None, or the numbers of examples per class
\* that dl_utils.class_fractions_to_num_points makes of the fractions.
ClassFractionChoices ==
    {NoClassFractions,
     [is_none |-> FALSE, num_points_by_class |-> <<5, 5>>],
     [is_none |-> FALSE, num_points_by_class |-> <<8, 2>>]}

\* _check_input_args, and the read of image_file_name_matrix[0, j].
GeneratorArgumentError ==
    IF num_examples_per_batch < 10 \/ num_examples_per_image_time < 2
    THEN "ValueError"
    ELSE IF num_image_times = 0 THEN "IndexError"
    ELSE "none"

\* int(numpy.ceil(float(num_examples_per_batch) /
\*                num_examples_per_image_time))
NumImageTimesPerBatch ==
    (num_examples_per_batch + num_examples_per_image_time - 1)
        \div num_examples_per_image_time

\* The cursor as it is left pointing past the end.
AdvanceWithoutWrap(index, num_times) == index + 1

\* image_time_index += 1; if image_time_index >= num_image_times: ... = 0
AdvanceImageTimeIndex(index, num_times) ==
    IF index + 1 >= num_times THEN 0 ELSE index + 1

\* these_target_values[numpy.where(these_target_values >= 0)[0]]
ValidTargetValues(label_values) ==
    SelectSeq(label_values, LAMBDA value : value >= 0)

\* [numpy.sum(all_target_values == k) for k in range(num_classes)]
NumExamplesByClass(target_values) ==
    [k \in 1..NumClasses |->
        Cardinality({n \in DOMAIN target_values :
                        target_values[n] = k - 1})]

ZeroExamplesByClass == [k \in 1..NumClasses |-> 0]

StoppingCriterion(num_times_in_memory, num_rows, num_by_class) ==
    /\ num_times_in_memory >= NumImageTimesPerBatch
    /\ num_rows >= num_examples_per_batch
    /\ \/ class_fractions_to_sample.is_none
       \/ \A k \in 1..NumClasses :
             num_by_class[k]
                 >= class_fractions_to_sample.num_points_by_class[k]

InitGenerator ==
    /\ BuffersIdle
    /\ RasterIdle
    /\ LeadIdle
    /\ PipelineIdle
    /\ SpacingIdle
    /\ ProjIdle
    /\ MetarIdle
    /\ num_image_times \in 0..MaxImageTimes
    /\ num_examples_per_batch \in {9, 10}
    /\ num_examples_per_image_time \in {1, 2, 5}
    /\ class_fractions_to_sample \in ClassFractionChoices
    /\ image_time_index = 0
    /\ num_image_times_in_memory = 0
    /\ num_examples_in_memory_by_class = ZeroExamplesByClass
    /\ full_predictor_matrix = NoPredictorMatrix
    /\ all_target_values = NoTargetValues
    /\ generator_pc = "start"

GeneratorFrame ==
    UNCHANGED <<bufferVars, rasterVars, leadVars, pipelineVars, spacingVars,
                projVars, metarVars, num_image_times, num_examples_per_batch,
                num_examples_per_image_time, class_fractions_to_sample>>

\* Lines 211-259: the argument checks and the first values.
StartGenerator ==
    /\ generator_pc = "start"
    /\ generator_pc' =
            IF GeneratorArgumentError = "none" THEN "read" ELSE "error"
    /\ UNCHANGED <<image_time_index, num_image_times_in_memory,
                   num_examples_in_memory_by_class, full_predictor_matrix,
                   all_target_values>>
    /\ GeneratorFrame

\* Lines 264-352: one pass of the inner loop, from the read of the file at
\* the cursor to the stopping criterion.
ReadImageTime ==
    /\ generator_pc = "read"
    /\ num_image_times_in_memory < MaxImageTimesInMemory
    /\ \E this_storm_image_dict \in ReadResults :
        IF this_storm_image_dict.is_none
        THEN /\ image_time_index' =
                    AdvanceImageTimeIndex(image_time_index, num_image_times)
             /\ UNCHANGED <<num_image_times_in_memory,
                            num_examples_in_memory_by_class,
                            full_predictor_matrix, all_target_values,
                            generator_pc>>
        ELSE LET these_target_values ==
                    ValidTargetValues(this_storm_image_dict.label_values)
                 values == all_target_values.values \o these_target_values
                 num_rows == full_predictor_matrix.num_rows
                                + Len(these_target_values)
             IN  /\ all_target_values' =
                        [is_none |-> FALSE, values |-> values]
                 /\ num_image_times_in_memory' =
                        num_image_times_in_memory + 1
                 /\ image_time_index' =
                        AdvanceImageTimeIndex(image_time_index,
                                              num_image_times)
                 /\ full_predictor_matrix' =
                        [is_none |-> FALSE, num_rows |-> num_rows]
                 /\ num_examples_in_memory_by_class' =
                        NumExamplesByClass(values)
                 /\ generator_pc' =
                        IF StoppingCriterion(
                                num_image_times_in_memory + 1, num_rows,
                                NumExamplesByClass(values))
                        THEN "batch" ELSE "read"
    /\ GeneratorFrame

\* Lines 354-396: the batch is drawn from what is in memory, the memory is
\* emptied, the batch is yielded.
YieldBatch ==
    /\ generator_pc = "batch"
    /\ full_predictor_matrix' = NoPredictorMatrix
    /\ all_target_values' = NoTargetValues
    /\ num_image_times_in_memory' = 0
    /\ num_examples_in_memory_by_class' = ZeroExamplesByClass
    /\ generator_pc' = "yielded"
    /\ UNCHANGED image_time_index
    /\ GeneratorFrame

\* The consumer asks for the next batch: the outer loop goes on.
ResumeGenerator ==
    /\ generator_pc = "yielded"
    /\ generator_pc' = "read"
    /\ UNCHANGED <<image_time_index, num_image_times_in_memory,
                   num_examples_in_memory_by_class, full_predictor_matrix,
                   all_target_values>>
    /\ GeneratorFrame

NextGenerator ==
    \/ StartGenerator
    \/ ReadImageTime
    \/ YieldBatch
    \/ ResumeGenerator

SpecGenerator == InitGenerator /\ [][NextGenerator]_vars

----------------------------------------------------------------------------
(***************************************************************************)
(* Properties of _check_distance_buffers.                                  *)
(***************************************************************************)
\* The nearest whole metre to h half metres, a tie going to the even one.
WholeMetres(h) ==
    CHOOSE m \in 0..h :
        /\ (2 * m - h) \in {-1, 0, 1}
        /\ (2 * m # h) => m % 2 = 0

\* The inputs the claim speaks of: only an innermost buffer has a NaN minimum.
OnlyInnermostMinIsNaN ==
    \A j \in DOMAIN min_distances_metres :
        IsNaN(min_distances_metres[j]) =>
            \A k \in DOMAIN max_distances_metres :
                max_distances_metres[j] <= max_distances_metres[k]

\* Sorted by max distance and rounded, every minimum equals the previous max.
RoundedAbutting ==
    \E p \in ArgSorts(max_distances_metres) :
        \A j \in 2..Len(max_distances_metres) :
            /\ ~IsNaN(min_distances_metres[p[j]])
            /\ WholeMetres(min_distances_metres[p[j]])
                = WholeMetres(max_distances_metres[p[j - 1]])

\* After rounding every buffer still has max > min.
RoundedWidthsPositive ==
    \A j \in DOMAIN min_distances_metres :
        \/ IsNaN(min_distances_metres[j])
        \/ WholeMetres(max_distances_metres[j])
            > WholeMetres(min_distances_metres[j])

\* C3 as stated: a buffer set (each max > min >= 0, innermost min possibly
\* NaN) is accepted if and only if, sorted by max distance and rounded to
\* whole metres, every buffer's min equals the previous buffer's max.
C3_AcceptedIffRoundedAbutting ==
    (check_result \in {"ok", "ValueError"} /\ OnlyInnermostMinIsNaN)
        => (check_result = "ok" <=> RoundedAbutting)

\* C3 amended: a buffer set is accepted if and only if, sorted by max
\* distance and rounded to whole metres, every buffer's min equals the
\* previous buffer's max and every buffer's rounded max still exceeds its
\* rounded min.
C3_AcceptedIffRoundedAbuttingAndWide ==
    (check_result \in {"ok", "ValueError"} /\ OnlyInnermostMinIsNaN)
        => (check_result = "ok"
                <=> (RoundedAbutting /\ RoundedWidthsPositive))

\* An abutting chain of three buffers, given out of order, has been accepted.
C3_Witness ==
    /\ check_result = "ok"
    /\ Len(max_distances_metres) = 3
    /\ max_distances_metres[1] > max_distances_metres[2]
    /\ IsNaN(min_distances_metres[2])

----------------------------------------------------------------------------
(***************************************************************************)
(* Properties of _find_grid_points_in_polygon.                             *)
(***************************************************************************)
\* What a test of every grid point gives.
CoveredGridPoints ==
    {pr \in (0..(Len(grid_points_y_metres) - 1))
            \X (0..(Len(grid_points_x_metres) - 1)) :
        PointInOrOnPolygon(polygon_object_xy,
                           grid_points_x_metres[pr[2] + 1],
                           grid_points_y_metres[pr[1] + 1])}

ReturnedGridPoints ==
    {<<raster_result.rows[n], raster_result.columns[n]>> :
        n \in DOMAIN raster_result.rows}

\* C4: for every polygon and every pair of ascending coordinate vectors the
\* rasterizer returns exactly the grid points in or on the polygon, each
\* (row, column) pair once.
C4_ReturnsExactlyCoveredPoints ==
    raster_result.status # "pending" =>
        /\ raster_result.status = "ok"
        /\ ReturnedGridPoints = CoveredGridPoints
        /\ Len(raster_result.rows) = Cardinality(CoveredGridPoints)
        /\ Len(raster_result.columns) = Len(raster_result.rows)

\* C5: when the polygon covers no grid point the rasterizer returns two
\* empty index arrays and raises no error.
C5_NothingCoveredGivesEmptyArrays ==
    (raster_result.status # "pending" /\ CoveredGridPoints = {}) =>
        /\ raster_result.status = "ok"
        /\ raster_result.rows = <<>>
        /\ raster_result.columns = <<>>

----------------------------------------------------------------------------
(***************************************************************************)
(* Properties of the accumulation in create_forecast_grids.  They are      *)
(* stated from the geometry: the storm objects of the current initial      *)
(* time, their x-y polygons, velocities and normalized probabilities, and  *)
(* the grid.                                                               *)
(***************************************************************************)
AllCells == GridCells(Len(grid_points_y_metres), Len(grid_points_x_metres))

NumBuffers == Len(min_distances_metres)

\* The grid points in or on buffer j of storm object k at lead time 0.
BaseCoveredCells(k, j) ==
    {cell \in AllCells :
        PointInOrOnPolygon(this_storm_object_table[k].xy[j],
                           grid_points_x_metres[cell[2] + 1],
                           grid_points_y_metres[cell[1] + 1])}

\* The whole number of grid cells nearest to a displacement (ties to even).
NearestWholeCells(diff, spacing) ==
    CHOOSE n \in (-Abs(diff) - 1)..(Abs(diff) + 1) :
        /\ 2 * Abs(n * spacing - diff) <= spacing
        /\ (2 * Abs(n * spacing - diff) = spacing) => n % 2 = 0

\* The cells (of the unbounded lattice) covered by buffer j of storm object
\* k when moved to the given lead time.
CoveredAt(k, j, lead_time) ==
    LET storm == this_storm_object_table[k]
        dr == NearestWholeCells(storm.north_velocity_m_s01 * lead_time,
                                GridSpacingY)
        dc == NearestWholeCells(storm.east_velocity_m_s01 * lead_time,
                                GridSpacingX)
    IN  {<<cell[1] + dr, cell[2] + dc>> : cell \in BaseCoveredCells(k, j)}

\* The contributions (storm object, buffer, lead time) of the lead-time loop.
Contributions ==
    (DOMAIN this_storm_object_table) \X (1..NumBuffers)
        \X Range(lead_times_seconds)

ContributionsCovering(cell) ==
    {tr \in Contributions : cell \in CoveredAt(tr[1], tr[2], tr[3])}

SumOfProbs(S) ==
    SumOver(S, [tr \in S |-> this_storm_object_table[tr[1]].forecast[tr[2]]])

\* C1: after the lead-time loop the finalized value of every covered cell
\* is the sum of the normalized probabilities of the contributions that
\* covered the cell, divided by their number.
C1_FinalizedIsMeanOfCoveringContributions ==
    pc = "store" =>
        \A cell \in AllCells :
            ContributionsCovering(cell) # {} =>
                /\ this_probability_matrix_xy[cell].den # 0
                /\ this_probability_matrix_xy[cell].num
                        * Cardinality(ContributionsCovering(cell))
                    = SumOfProbs(ContributionsCovering(cell))
                        * this_probability_matrix_xy[cell].den

\* C2: a cell of the finalized grid is NaN if and only if no buffer of any
\* storm covered it at any lead time.
C2_NaNIffNeverCovered ==
    pc = "store" =>
        \A cell \in AllCells :
            (this_probability_matrix_xy[cell].den = 0)
                <=> (ContributionsCovering(cell) = {})

\* The bounding box of a polygon does not meet the extent of the grid.
EntirelyOutsideGrid(polygon) ==
    \/ Max(RingX(polygon.exterior)) < grid_points_x_metres[1]
    \/ Min(RingX(polygon.exterior))
        > grid_points_x_metres[Len(grid_points_x_metres)]
    \/ Max(RingY(polygon.exterior)) < grid_points_y_metres[1]
    \/ Min(RingY(polygon.exterior))
        > grid_points_y_metres[Len(grid_points_y_metres)]

\* C6: a buffer polygon that, extrapolated to the lead time, lies entirely
\* outside the grid has empty membership lists, so that the accumulation
\* skips it: no cell changes and no error is raised.
C6_OffGridPolygonHasEmptyLists ==
    pc = "accumulate" =>
        \A k \in DOMAIN this_extrap_storm_object_table :
            \A j \in 1..NumBuffers :
                EntirelyOutsideGrid(this_extrap_storm_object_table[k].xy[j])
                    => /\ this_extrap_storm_object_table[k].grid_rows[j] = <<>>
                       /\ this_extrap_storm_object_table[k].grid_columns[j]
                            = <<>>

\* C7: every (row, column) pair handed to the accumulation lies inside the
\* grid.
C7_AccumulatedIndicesInsideGrid ==
    pc = "accumulate" =>
        \A k \in DOMAIN this_extrap_storm_object_table :
            \A j \in 1..NumBuffers :
                LET rows == this_extrap_storm_object_table[k].grid_rows[j]
                    columns ==
                        this_extrap_storm_object_table[k].grid_columns[j]
                IN  \A n \in DOMAIN rows :
                        /\ 0 <= rows[n] /\ rows[n] < NumXYRows
                        /\ 0 <= columns[n] /\ columns[n] < NumXYColumns

ZeroSpeed(storm) ==
    storm.east_velocity_m_s01 = 0 /\ storm.north_velocity_m_s01 = 0

OneStationaryStormOneBuffer ==
    /\ Len(this_storm_object_table) = 1
    /\ NumBuffers = 1
    /\ ZeroSpeed(this_storm_object_table[1])

BaseListCells(k, j) ==
    {<<this_storm_object_table[k].grid_rows[j][n],
       this_storm_object_table[k].grid_columns[j][n]>> :
        n \in DOMAIN this_storm_object_table[k].grid_rows[j]}

\* C8: a storm with zero speed covers, at every lead time, the cells of its
\* lead-time-0 rasterization; with one such storm and one buffer, after the
\* L lead times every covered cell has count L and sum L x p', every other
\* cell count 0, and the finalized value of a covered cell is p'.
C8_StationaryStormCountsEveryLeadTime ==
    /\ pc = "accumulate" =>
        \A k \in DOMAIN this_storm_object_table :
            ZeroSpeed(this_storm_object_table[k]) =>
                \A j \in 1..NumBuffers :
                    /\ this_extrap_storm_object_table[k].grid_rows[j]
                        = this_storm_object_table[k].grid_rows[j]
                    /\ this_extrap_storm_object_table[k].grid_columns[j]
                        = this_storm_object_table[k].grid_columns[j]
    /\ (pc = "finalize" /\ OneStationaryStormOneBuffer) =>
        \A cell \in AllCells :
            IF cell \in BaseListCells(1, 1)
            THEN /\ this_num_forecast_matrix[cell] = Len(lead_times_seconds)
                 /\ this_probability_matrix_xy[cell].num
                        = Len(lead_times_seconds)
                            * this_storm_object_table[1].forecast[1]
            ELSE this_num_forecast_matrix[cell] = 0
    /\ (pc = "store" /\ OneStationaryStormOneBuffer) =>
        \A cell \in BaseListCells(1, 1) :
            /\ this_probability_matrix_xy[cell].den # 0
            /\ this_probability_matrix_xy[cell].num
                = this_storm_object_table[1].forecast[1]
                    * this_probability_matrix_xy[cell].den

\* One stationary storm with one buffer has been finalized over three lead
\* times, and a cell it covers holds count 3.
C8_Witness ==
    /\ pc = "store"
    /\ OneStationaryStormOneBuffer
    /\ Len(lead_times_seconds) = 3
    /\ \E cell \in BaseListCells(1, 1) :
        /\ this_num_forecast_matrix[cell] = 3
        /\ this_probability_matrix_xy[cell].den = 3
        /\ this_storm_object_table[1].forecast[1] > 0

\* The (storm object, lead time) pairs that cover a cell with some buffer.
StormLeadPairsCovering(cell) ==
    {pr \in (DOMAIN this_storm_object_table) \X Range(lead_times_seconds) :
        \E j \in 1..NumBuffers : cell \in CoveredAt(pr[1], j, pr[2])}

\* Every buffer of every storm object stays on the grid at every lead time.
AllContributionsOnGrid ==
    \A tr \in Contributions : CoveredAt(tr[1], tr[2], tr[3]) \subseteq AllCells

\* C10: the count that divides a cell is the number of (storm, lead time)
\* pairs that cover it: one storm at one lead time counts at most once,
\* whatever the number of its buffers.  (Stated for storms that stay on the
\* grid, where every index of the accumulation is inside the grid.)
C10_CountIsStormLeadPairs ==
    (pc = "finalize" /\ AllContributionsOnGrid) =>
        \A cell \in AllCells :
            this_num_forecast_matrix[cell]
                = Cardinality(StormLeadPairsCovering(cell))

----------------------------------------------------------------------------
(***************************************************************************)
(* Properties of the lead times.                                           *)
(***************************************************************************)
\* C9: the lead times are strictly ascending, start at min_lead_time, end
\* at max_lead_time and step by exactly lead_time_resolution.
C9_LeadTimesStepByResolution ==
    lead_times_seconds # <<>> =>
        /\ lead_times_seconds[1] = min_lead_time_sec
        /\ lead_times_seconds[Len(lead_times_seconds)] = max_lead_time_sec
        /\ \A n \in 1..(Len(lead_times_seconds) - 1) :
            lead_times_seconds[n + 1] - lead_times_seconds[n]
                = lead_time_resolution_sec

----------------------------------------------------------------------------
(***************************************************************************)
(* Properties of _normalize_probs_by_polygon_area.                         *)
(***************************************************************************)
\* Buffer j of storm object k was passed with a probability in [0, 1] and
\* a polygon of positive area.
NormalizeInputValid(k, j) ==
    /\ storm_object_table[k].forecast[j] \in 0..ProbDenom
    /\ TwicePolygonArea(storm_object_table[k].xy[j]) > 0

NormalizeReturned == pc = "rasterize"

\* C11: _normalize_probs_by_polygon_area raises an error when a probability
\* lies outside [0, 1] or a polygon area is not positive: it returns only
\* when every input is valid.
C11_InvalidInputIsRejected ==
    NormalizeReturned =>
        \A k \in DOMAIN storm_object_table :
            \A j \in DOMAIN storm_object_table[k].forecast :
                NormalizeInputValid(k, j)

\* C12: for a probability p in [0, 1] and a polygon of area A > 0 (r > 0),
\* the normalized probability 1 - (1 - p)^(pi r^2 / A) lies in [0, 1], and
\* it equals p when A = pi r^2.
C12_NormalizedInUnitIntervalAndFixedAtProbArea ==
    NormalizeReturned =>
        \A k \in DOMAIN storm_object_table :
            \A j \in DOMAIN storm_object_table[k].forecast :
                NormalizeInputValid(k, j) =>
                    /\ this_storm_object_table[k].forecast[j] >= 0
                    /\ this_storm_object_table[k].forecast[j] <= ProbScale
                    /\ TwicePolygonArea(storm_object_table[k].xy[j])
                            = 2 * ProbAreaForGrid
                        => this_storm_object_table[k].forecast[j] * ProbDenom
                            = storm_object_table[k].forecast[j] * ProbScale

\* A table with a buffer of area pi r^2 and one of a smaller area, both with
\* a probability strictly between 0 and 1, has been normalized.
C12_Witness ==
    /\ NormalizeReturned
    /\ Len(storm_object_table[1].forecast) = 2
    /\ NormalizeInputValid(1, 1)
    /\ NormalizeInputValid(1, 2)
    /\ storm_object_table[1].forecast[1] \in 1..(ProbDenom - 1)
    /\ storm_object_table[1].forecast[2] \in 1..(ProbDenom - 1)
    /\ TwicePolygonArea(storm_object_table[1].xy[1]) = 2 * ProbAreaForGrid
    /\ TwicePolygonArea(storm_object_table[1].xy[2]) < 2 * ProbAreaForGrid
    /\ this_storm_object_table[1].forecast[2] * ProbDenom
        > storm_object_table[1].forecast[2] * ProbScale

----------------------------------------------------------------------------
(***************************************************************************)
(* Properties of the argument checks and of the result of                  *)
(* create_forecast_grids.                                                  *)
(***************************************************************************)
\* No initial time has been touched: nothing selected, projected,
\* normalized, rasterized, accumulated or stored.
NoInitTimeProcessed ==
    /\ init_time_index = 0
    /\ this_storm_object_table = <<>>
    /\ this_extrap_storm_object_table = <<>>
    /\ this_probability_matrix_xy = <<>>
    /\ this_num_forecast_matrix = <<>>
    /\ gridded_forecast_dict = <<>>
    /\ latlng_forecast_dict = NoLatLngDict
    /\ ~returned_dict.returned

FailedAtArguments == pc = "error" /\ init_time_index = 0

\* The buffer columns exist and their distances, sorted and rounded, abut
\* with positive widths.
BufferColumnsValid ==
    /\ Len(min_distances_metres) > 0
    /\ RoundedAbutting
    /\ RoundedWidthsPositive

\* C13: create_forecast_grids accepts exactly the smoothing methods gaussian,
\* cressman and None; with any other value the call fails with an error
\* before any initial time is processed, and with one of the three (and
\* valid buffer columns) the argument checks pass.
C13_OnlyKnownSmoothingMethodsAccepted ==
    /\ smoothing_method \notin {"None", "gaussian", "cressman"} =>
        /\ pc \in {"start", "error"}
        /\ NoInitTimeProcessed
        /\ pc = "error" => error \in {"ValueError", "TypeError"}
    /\ (smoothing_method \in {"None", "gaussian", "cressman"}
            /\ BufferColumnsValid) => ~FailedAtArguments

\* A call with an unknown method has been rejected.
C13_Witness ==
    /\ smoothing_method = "linear"
    /\ BufferColumnsValid
    /\ Len(storm_object_table) > 0
    /\ FailedAtArguments
    /\ error = "ValueError"

\* C14: when the table has no distance-buffer columns, or its buffers do not
\* abut, create_forecast_grids raises an error before any storm object is
\* projected, normalized, rasterized or accumulated.
C14_InvalidBufferSetFailsFirst ==
    (Len(min_distances_metres) = 0 \/ ~RoundedAbutting) =>
        /\ pc \in {"start", "error"}
        /\ NoInitTimeProcessed
        /\ pc = "error" => error \in {"ValueError", "TypeError"}

\* A call whose two buffers leave a gap has been rejected, the smoothing
\* method being acceptable.
C14_Witness ==
    /\ smoothing_method = "gaussian"
    /\ Len(min_distances_metres) = 2
    /\ ~RoundedAbutting
    /\ Len(storm_object_table) > 0
    /\ FailedAtArguments
    /\ error = "ValueError"

\* C15: if the construction fails while processing initial time i, the
\* grids completed for the initial times before i are available to the
\* caller.
C15_EarlierGridsAvailableAfterFailure ==
    (pc = "error" /\ init_time_index >= 2) =>
        /\ returned_dict.returned
        /\ \A i \in 1..(init_time_index - 1) :
            /\ i \in DOMAIN returned_dict.xy_probabilities
            /\ returned_dict.xy_probabilities[i].set

\* The distinct valid times of the table passed to create_forecast_grids.
DistinctValidTimes ==
    {storm_object_table[k].valid_time_unix_sec :
        k \in DOMAIN storm_object_table}

SuccessfulReturn == pc = "done"

----------------------------------------------------------------------------
(***************************************************************************)
(* Properties of project_latlng_to_xy and project_xy_to_latlng.            *)
(***************************************************************************)
\* The input pair at position idx holds a NaN.
InputPairHasNan(idx) ==
    IsNanValue(latitudes_deg[idx]) \/ IsNanValue(longitudes_deg[idx])

\* C16: project_latlng_to_xy and project_xy_to_latlng work element by
\* element on arrays of any shape: an output element is NaN exactly when the
\* input pair at the same position holds a NaN, whatever the other
\* positions hold.
C16_NanExactlyWhereInputHasNan ==
    /\ proj_pc \in {"projected", "inverted"} =>
        \A idx \in DOMAIN latitudes_deg :
            /\ IsNanValue(x_coords_metres[idx]) <=> InputPairHasNan(idx)
            /\ IsNanValue(y_coords_metres[idx]) <=> InputPairHasNan(idx)
    /\ proj_pc = "inverted" =>
        \A idx \in DOMAIN x_coords_metres :
            /\ IsNanValue(out_latitudes_deg[idx])
                <=> (IsNanValue(x_coords_metres[idx])
                        \/ IsNanValue(y_coords_metres[idx]))
            /\ IsNanValue(out_longitudes_deg[idx])
                <=> (IsNanValue(x_coords_metres[idx])
                        \/ IsNanValue(y_coords_metres[idx]))

\* Some latitude that is not NaN lies outside [-90, 90].
SomeLatitudeOutOfRange ==
    \E idx \in DOMAIN latitudes_deg :
        /\ latitudes_deg[idx] # NanValue
        /\ (latitudes_deg[idx][1] > 90 \/ latitudes_deg[idx][1] < -90)

\* C17: project_latlng_to_xy fails whenever some non-NaN latitude has
\* |lat| > 90, before the projection is applied, and a NaN latitude never
\* makes it fail.
C17_OutOfRangeLatitudeFailsBeforeProjecting ==
    /\ proj_pc # "start" =>
        (proj_pc = "error" <=> SomeLatitudeOutOfRange)
    /\ proj_pc = "error" =>
        /\ DOMAIN x_coords_metres = {}
        /\ DOMAIN y_coords_metres = {}

\* An array with a NaN latitude and a latitude of 95 degrees was rejected.
C17_Witness ==
    /\ proj_pc = "error"
    /\ \E idx \in DOMAIN latitudes_deg : latitudes_deg[idx] = NanValue
    /\ \E idx \in DOMAIN latitudes_deg : latitudes_deg[idx] = <<95>>

\* Every input pair is a latitude in [-89, 89] with a longitude.
AllPairsValid ==
    \A idx \in DOMAIN latitudes_deg :
        /\ latitudes_deg[idx] # NanValue
        /\ longitudes_deg[idx] # NanValue
        /\ latitudes_deg[idx][1] >= -89
        /\ latitudes_deg[idx][1] <= 89

\* The longitude in the 0-360 convention.
PositiveInWest(lng) == IF lng < 0 THEN lng + 360 ELSE lng

\* C18: for valid (lat, lon) with |lat| <= 89 and any false easting and
\* northing, project_xy_to_latlng applied to the result of
\* project_latlng_to_xy with the same projection and offsets recovers
\* (lat, lon), the longitude in the 0-360 convention, for both projections.
C18_RoundTripRecoversLatLng ==
    (proj_pc = "inverted" /\ AllPairsValid) =>
        \A idx \in DOMAIN latitudes_deg :
            /\ out_latitudes_deg[idx] = latitudes_deg[idx]
            /\ out_longitudes_deg[idx]
                = <<PositiveInWest(longitudes_deg[idx][1])>>

\* A 2-D array holding a western longitude went through the Lambert
\* projection and back with non-zero offsets.
C18_Witness ==
    /\ proj_pc = "inverted"
    /\ AllPairsValid
    /\ projection_name = "lcc"
    /\ false_easting_metres # 0
    /\ false_northing_metres # 0
    /\ <<2, 2>> \in DOMAIN latitudes_deg
    /\ \E idx \in DOMAIN longitudes_deg : longitudes_deg[idx][1] < 0
    /\ \E idx \in DOMAIN latitudes_deg : latitudes_deg[idx][1] < 0

----------------------------------------------------------------------------
(***************************************************************************)
(* Properties of _create_xy_grid.                                          *)
(***************************************************************************)
XYGridCreated == pc = "xy_grid_created"

\* The vertices of all buffer polygons of the table.
BufferVertices ==
    UNION {UNION {{storm_object_table[k].xy[j].exterior[n] :
                        n \in DOMAIN storm_object_table[k].xy[j].exterior} :
                    j \in DOMAIN storm_object_table[k].xy} :
            k \in DOMAIN storm_object_table}

GridMargin == 60 * max_lead_time_sec

AscendingMultiples(points, spacing) ==
    /\ Len(points) >= 1
    /\ \A n \in 2..Len(points) : points[n - 1] < points[n]
    /\ \A n \in DOMAIN points : points[n] % spacing = 0

\* C19 as stated: the grid coordinates are ascending multiples of the
\* spacing and strictly enclose the extent of all buffer polygons expanded
\* by the margin 60 m/s x max_lead_time: the smallest grid x (y) is strictly
\* below the minimum polygon x (y) minus the margin and the largest strictly
\* above the maximum plus the margin.
C19_GridStrictlyEnclosesExtent ==
    XYGridCreated =>
        /\ AscendingMultiples(grid_points_x_metres, x_spacing_metres)
        /\ AscendingMultiples(grid_points_y_metres, y_spacing_metres)
        /\ \A v \in BufferVertices :
            /\ grid_points_x_metres[1] < v[1] - GridMargin
            /\ grid_points_x_metres[Len(grid_points_x_metres)]
                > v[1] + GridMargin
            /\ grid_points_y_metres[1] < v[2] - GridMargin
            /\ grid_points_y_metres[Len(grid_points_y_metres)]
                > v[2] + GridMargin

\* C19, amended: the grid coordinates are ascending multiples of the spacing
\* and enclose the extent expanded by the margin, the edge included: the
\* smallest grid x (y) is at or below the minimum polygon x (y) minus the
\* margin and less than one spacing below it, the largest at or above the
\* maximum plus the margin and less than one spacing above it.
C19_GridEnclosesExtent ==
    XYGridCreated =>
        /\ AscendingMultiples(grid_points_x_metres, x_spacing_metres)
        /\ AscendingMultiples(grid_points_y_metres, y_spacing_metres)
        /\ \A v \in BufferVertices :
            /\ grid_points_x_metres[1] <= v[1] - GridMargin
            /\ grid_points_x_metres[Len(grid_points_x_metres)]
                >= v[1] + GridMargin
            /\ grid_points_y_metres[1] <= v[2] - GridMargin
            /\ grid_points_y_metres[Len(grid_points_y_metres)]
                >= v[2] + GridMargin
        /\ \E v \in BufferVertices :
            grid_points_x_metres[1] > v[1] - GridMargin - x_spacing_metres
        /\ \E v \in BufferVertices :
            grid_points_x_metres[Len(grid_points_x_metres)]
                < v[1] + GridMargin + x_spacing_metres
        /\ \E v \in BufferVertices :
            grid_points_y_metres[1] > v[2] - GridMargin - y_spacing_metres
        /\ \E v \in BufferVertices :
            grid_points_y_metres[Len(grid_points_y_metres)]
                < v[2] + GridMargin + y_spacing_metres

\* A grid whose western edge is exactly the minimum polygon x minus the
\* margin, while its eastern edge lies beyond the maximum plus the margin.
C19_Witness ==
    /\ XYGridCreated
    /\ \E v \in BufferVertices :
        grid_points_x_metres[1] = v[1] - GridMargin
    /\ \A v \in BufferVertices :
        grid_points_x_metres[Len(grid_points_x_metres)] > v[1] + GridMargin

----------------------------------------------------------------------------
(***************************************************************************)
(* Properties of the wind parsers of hfmetar_io.py.                        *)
(***************************************************************************)
WindFieldIsInvalid(n) == IsNanValue(FloatOrNan(wind_fields[n]))

\* C21: _parse_1minute_wind_from_line returns (sustained speed, sustained
\* direction, gust speed, gust direction) read from the four wind fields of
\* the line, also when further tokens follow them, and returns NaN for all
\* four when one of the wind fields is not a valid number.
C21_WindReadFromTheFourWindFields ==
    (metar_pc = "returned_1minute" /\ Len(wind_fields) = 4) =>
        IF \E n \in 1..4 : WindFieldIsInvalid(n)
        THEN wind_tuple = AllNan
        ELSE wind_tuple = ParseWindFields(wind_fields)

\* The wind token as a 5-minute line carries it: word 7, or word 8 when
\* word 7 is "AUTO"; <<>> when the line ends before it.  Letters are compared
\* in upper case.
WindToken ==
    IF Len(words) < 7 THEN <<>>
    ELSE IF words[7] # AutoWord THEN Upper(words[7])
    ELSE IF Len(words) < 8 THEN <<>>
    ELSE Upper(words[8])

AllDigits(string) ==
    string # <<>> /\ \A n \in DOMAIN string : IsDigit(string[n])

Contains(string, pattern) ==
    \E i \in 1..(Len(string) - Len(pattern) + 1) :
        SubSeq(string, i, i + Len(pattern) - 1) = pattern

\* Place (from 1) of the first occurrence of the pattern in the token.
PlaceOf(string, pattern) ==
    Min({i \in 1..(Len(string) - Len(pattern) + 1) :
            SubSeq(string, i, i + Len(pattern) - 1) = pattern})

\* Number of characters before the first "G" or "KT" of the token: the
\* direction and the speed.
LengthBeforeSpeedEnd(string) ==
    IF Contains(string, <<"G">>)
    THEN Min({PlaceOf(string, <<"G">>), PlaceOf(string, <<"K", "T">>)}) - 1
    ELSE PlaceOf(string, <<"K", "T">>) - 1

TokenIsMalformed(string) ==
    \/ string = <<>>
    \/ ~Contains(string, <<"K", "T">>)
    \/ LengthBeforeSpeedEnd(string) <= 3
    \/ /\ Contains(string, <<"G">>)
       /\ PlaceOf(string, <<"K", "T">>) <= PlaceOf(string, <<"G">>) + 1

\* dddssKT
TokenWithoutGust(string, ddd, ss) ==
    /\ Len(ddd) = 3 /\ AllDigits(ddd) /\ AllDigits(ss)
    /\ string = ddd \o ss \o <<"K", "T">>

\* dddssGggKT
TokenWithGust(string, ddd, ss, gg) ==
    /\ Len(ddd) = 3 /\ AllDigits(ddd) /\ AllDigits(ss) /\ AllDigits(gg)
    /\ string = ddd \o ss \o <<"G">> \o gg \o <<"K", "T">>

Pieces(string) ==
    {SubSeq(string, a, b) : a \in 1..Len(string), b \in 1..Len(string)}

\* C22: _parse_5minute_wind_from_line takes the wind token from word 7, or
\* from word 8 when word 7 is "AUTO"; it returns NaN for all four values when
\* the token is missing, has no "KT", has no 3-character direction before the
\* speed, has an empty speed, or has a "G" with an empty gust speed; for a
\* token dddssKT it returns (ss, ddd, NaN, NaN) and for dddssGggKT
\* (ss, ddd, gg, NaN); the gust direction is always NaN.
C22_FiveMinuteWindFromToken ==
    metar_pc = "returned_5minute" =>
        /\ TokenIsMalformed(WindToken) => wind_tuple = AllNan
        /\ \A ddd, ss \in Pieces(WindToken) :
              TokenWithoutGust(WindToken, ddd, ss) =>
                  wind_tuple = <<Real(DigitsValue(ss)), Real(DigitsValue(ddd)),
                                 NanValue, NanValue>>
        /\ \A ddd, ss, gg \in Pieces(WindToken) :
              TokenWithGust(WindToken, ddd, ss, gg) =>
                  wind_tuple = <<Real(DigitsValue(ss)), Real(DigitsValue(ddd)),
                                 Real(DigitsValue(gg)), NanValue>>
        /\ IsNanValue(wind_tuple[4])

\* A gust token after "AUTO" has been parsed into speed, direction and gust.
C22_Witness ==
    /\ metar_pc = "returned_5minute"
    /\ Len(words) >= 8
    /\ words[7] = AutoWord
    /\ \E ddd, ss, gg \in Pieces(WindToken) :
          TokenWithGust(WindToken, ddd, ss, gg)
    /\ ~IsNanValue(wind_tuple[3])

----------------------------------------------------------------------------
(***************************************************************************)
(* Properties of the raw-file names of hfmetar_io.py.                      *)
(***************************************************************************)
FileSearchIsOver == metar_pc \in {"found_1minute", "found_5minute", "error"}

\* The pathless name as documented: "64050" for 1-minute files and "64010"
\* for 5-minute files, then station, yyyymm and ".dat".
DocumentedPathlessName ==
    <<IF metar_pc = "found_5minute" THEN "64010" ELSE "64050",
      station_id, UnixSecToMonthString(month_unix_sec), ".dat">>

\* C23: the pathless name of the raw 1-minute file is "64050" + station +
\* yyyymm + ".dat" ("64010" + ... for the 5-minute file); the finders return
\* top_directory/station/<pathless name> whether or not the file exists when
\* raise_error_if_missing is false, and raise an error when it is true and
\* the file does not exist.
C23_RawFileNameAsDocumented ==
    FileSearchIsOver =>
        /\ metar_pc = "error" <=> (raise_error_if_missing /\ ~raw_file_exists)
        /\ metar_pc # "error" =>
              raw_file_name = <<top_directory_name, station_id,
                                DocumentedPathlessName>>

----------------------------------------------------------------------------
(***************************************************************************)
(* Properties of the loop over initial times in create_forecast_grids.     *)
(***************************************************************************)
StageOrder ==
    <<"select", "project", "normalize", "rasterize", "extrapolate",
      "accumulate", "finalize", "smooth", "store", "interp">>

InInitTime == pc \in Range(StageOrder)

StageRank(stage) == CHOOSE n \in DOMAIN StageOrder : StageOrder[n] = stage

\* The rows of the input table valid at the current initial time.
SelectedStorms ==
    StormObjectsAtTime(
        storm_object_table,
        InitTimesUnixSec(storm_object_table)[init_time_index])

\* The (storm object, buffer) pairs whose extrapolated lists hold the cell.
AccumulatedHere(cell) ==
    {kj \in (DOMAIN this_storm_object_table) \X (1..NumBuffers) :
        cell \in AddedCells(
            this_extrap_storm_object_table[kj[1]].grid_rows[kj[2]],
            this_extrap_storm_object_table[kj[1]].grid_columns[kj[2]],
            NumXYRows, NumXYColumns)}

\* The probability of buffer j of storm object k, normalized from the input.
NormalizedFromInput(k, j) ==
    NormalizedProb(SelectedStorms[k].forecast[j],
                   TwicePolygonArea(this_storm_object_table[k].xy[j]))

\* One step inside an initial time: the next stage, the next lead time, or
\* an optional stage left out.
StepWithinInitTime ==
    /\ init_time_index' = init_time_index
    /\ pc' \in Range(StageOrder)
    /\ \/ StageRank(pc') = StageRank(pc) + 1
       \/ /\ pc = "accumulate" /\ pc' = "extrapolate"
          /\ lead_time_index' = lead_time_index + 1
          /\ lead_time_index' <= Len(lead_times_seconds)
       \/ pc = "finalize" /\ pc' = "store" /\ smoothing_method = "None"
    /\ pc' = "smooth" => smoothing_method # "None"
    /\ pc' = "interp" => interp_to_latlng_grid
    /\ pc' = "finalize" => lead_time_index = Len(lead_times_seconds)
    /\ (pc = "rasterize" /\ pc' = "extrapolate") => lead_time_index' = 1

\* The step that ends an initial time, after its planar grid was stored.
StepToNextInitTime ==
    /\ \/ pc = "store" /\ ~interp_to_latlng_grid
       \/ pc = "interp"
    /\ gridded_forecast_dict'[init_time_index].set
    /\ \/ pc' = "select" /\ init_time_index' = init_time_index + 1
       \/ /\ pc' = "return" /\ init_time_index' = init_time_index
          /\ init_time_index = NumInitTimes

\* What an accumulation step adds to the sum of a cell.
AccumulationAddsNormalized ==
    (pc = "accumulate" /\ pc' # "error") =>
        \A cell \in AllCells :
            this_probability_matrix_xy'[cell].num
                    - this_probability_matrix_xy[cell].num
                = SumOver(AccumulatedHere(cell),
                          [kj \in AccumulatedHere(cell) |->
                              NormalizedFromInput(kj[1], kj[2])])

StageStep ==
    (InInitTime /\ pc' # "error") =>
        /\ StepWithinInitTime \/ StepToNextInitTime
        /\ AccumulationAddsNormalized

\* The planar grid that is interpolated is the stored one, and the grids of
\* the earlier initial times are stored.
StoredBeforeMovingOn ==
    InInitTime =>
        /\ \A i \in 1..(init_time_index - 1) : gridded_forecast_dict[i].set
        /\ pc = "interp" =>
              /\ gridded_forecast_dict[init_time_index].set
              /\ gridded_forecast_dict[init_time_index].matrix
                    = this_probability_matrix_xy

\* C24: for each initial time the stages run once each and in order, never
\* going back: select, project, normalize, rasterize, the loop over lead
\* times (extrapolate with translated membership, accumulate), finalize,
\* optional smoothing, optional interpolation; the accumulation adds the
\* normalized probabilities; the smoothed planar grid is the one stored and
\* interpolated; the next initial time starts after the planar grid of the
\* current one is stored.
C24_StagesOnceInOrder == [][StageStep]_vars /\ []StoredBeforeMovingOn

\* The second initial time of a call with smoothing and interpolation has
\* reached the interpolation after two or more lead times, with a
\* probability that the normalization changed.
C24_Witness ==
    /\ pc = "interp"
    /\ init_time_index = 2
    /\ smoothing_method # "None"
    /\ Len(lead_times_seconds) >= 2
    /\ \E k \in DOMAIN this_storm_object_table : \E j \in 1..NumBuffers :
          this_storm_object_table[k].forecast[j]
              # SelectedStorms[k].forecast[j] * (ProbScale \div ProbDenom)

\* The table of one initial time as the stages before the lead-time loop
\* derive it from rows of the input.
DerivedTable(input_rows) ==
    PolygonsToGridPoints(
        NormalizeProbsByPolygonArea(PolygonsFromLatLngToXY(input_rows)),
        grid_points_x_metres, grid_points_y_metres).table

\* The lead-time loop over the given lead times, from the n-th on.
RECURSIVE LeadTimeLoop(_, _, _, _)
LeadTimeLoop(acc, base_table, lead_times, n) ==
    IF n > Len(lead_times) \/ acc.error # "none" THEN acc
    ELSE LeadTimeLoop(
            AccumulateFrom(
                acc,
                ExtrapPolygonsToGridPoints(
                    base_table,
                    ExtrapolatePolygons(base_table, lead_times[n]),
                    GridSpacingX, GridSpacingY),
                base_table, 1, NumXYRows, NumXYColumns),
            base_table, lead_times, n + 1)

\* The finalized grid that the lead-time loop, finalization and smoothing
\* make from the table of lead time 0, with the lead times taken in the
\* given order.
GridFromBaseTable(base_table, lead_times) ==
    LET acc == LeadTimeLoop(
                    [count |-> [cell \in AllCells |-> 0],
                     sum   |-> [cell \in AllCells |-> 0],
                     error |-> "none"],
                    base_table, lead_times, 1)
    IN  ApplySmoothing(
            [cell \in AllCells |->
                [num |-> acc.sum[cell], den |-> acc.count[cell]]],
            smoothing_method)

\* The finalized grid of a call whose table holds the given rows only.
GridOfRowsAlone(input_rows, lead_times) ==
    GridFromBaseTable(DerivedTable(input_rows), lead_times)

AtStartOfLeadTimeLoop == pc = "extrapolate" /\ lead_time_index = 1

\* C25: at the start of every initial time's lead-time loop the sum matrix
\* and the count matrix are all zero and the x-y polygons, normalized
\* probabilities and grid membership are those derived from the input rows
\* of that time; the stored grid of an initial time equals the grid of that
\* time's storm objects processed alone.
C25_InitTimesAreIndependent ==
    /\ AtStartOfLeadTimeLoop =>
          /\ \A cell \in AllCells :
                /\ this_num_forecast_matrix[cell] = 0
                /\ this_probability_matrix_xy[cell].num = 0
          /\ this_storm_object_table = DerivedTable(SelectedStorms)
    /\ pc = "store" =>
          this_probability_matrix_xy
              = GridOfRowsAlone(SelectedStorms, lead_times_seconds)

\* The grid of a second initial time is ready to be stored, the first one
\* having left covered cells behind, and rows of another time are in the
\* table.
C25_Witness ==
    /\ pc = "store"
    /\ init_time_index = 2
    /\ Len(SelectedStorms) < Len(storm_object_table)
    /\ \E cell \in AllCells : gridded_forecast_dict[1].matrix[cell].den # 0
    /\ \E cell \in AllCells : this_probability_matrix_xy[cell].den # 0

ExtrapListCells(k, j) ==
    {<<this_extrap_storm_object_table[k].grid_rows[j][n],
       this_extrap_storm_object_table[k].grid_columns[j][n]>> :
        n \in DOMAIN this_extrap_storm_object_table[k].grid_rows[j]}

\* The cells of the lead-time-0 membership of buffer j of storm object k,
\* moved by the whole numbers of cells nearest to the displacement of the
\* storm over the lead time.
BaseListCellsMovedTo(k, j, lead_time) ==
    LET storm == this_storm_object_table[k]
        dr == NearestWholeCells(storm.north_velocity_m_s01 * lead_time,
                                GridSpacingY)
        dc == NearestWholeCells(storm.east_velocity_m_s01 * lead_time,
                                GridSpacingX)
    IN  {<<cell[1] + dr, cell[2] + dc>> : cell \in BaseListCells(k, j)}

InLeadTimeLoop == pc \in {"extrapolate", "accumulate", "finalize"}

LeadTimeOrders ==
    {[n \in DOMAIN lead_times_seconds |-> lead_times_seconds[p[n]]] :
        p \in Permutations1(Len(lead_times_seconds))}

\* C26: the cells covered at a lead time are the lead-time-0 membership of
\* the buffer moved by the displacement over that lead time, whatever the
\* lead times before it were; the lead-time-0 table is the same throughout
\* the loop; and the finalized grid is the same for every order in which
\* the lead times are taken.
C26_LeadTimesAreIndependent ==
    /\ pc = "accumulate" =>
          \A k \in DOMAIN this_storm_object_table : \A j \in 1..NumBuffers :
              ExtrapListCells(k, j)
                  = BaseListCellsMovedTo(k, j,
                                         lead_times_seconds[lead_time_index])
    /\ InLeadTimeLoop =>
          this_storm_object_table = DerivedTable(SelectedStorms)
    /\ pc = "store" =>
          \A lead_times \in LeadTimeOrders :
              this_probability_matrix_xy
                  = GridFromBaseTable(this_storm_object_table, lead_times)

\* A moving storm is at its last of three lead times, with cells that are
\* not those of lead time 0.
C26_Witness ==
    /\ pc = "accumulate"
    /\ lead_time_index = 3
    /\ \E k \in DOMAIN this_storm_object_table : \E j \in 1..NumBuffers :
          /\ ExtrapListCells(k, j) # {}
          /\ ExtrapListCells(k, j) # BaseListCells(k, j)


\* The displacement of the first vertex of buffer j of storm object k, in
\* x (axis 1) or y (axis 2).
FirstVertexDiff(k, j, axis) ==
    this_extrap_storm_object_table[k].xy[j].exterior[1][axis]
        - this_storm_object_table[k].xy[j].exterior[1][axis]

\* Every index of the extrapolated list is the index of the original list
\* plus one whole number, within half a cell of the displacement.
ShiftedByNearestWhole(extrap_list, orig_list, diff_metres, spacing) ==
    /\ Len(extrap_list) = Len(orig_list)
    /\ \E d \in (-Abs(diff_metres) - 1)..(Abs(diff_metres) + 1) :
          /\ 2 * Abs(d * spacing - diff_metres) <= spacing
          /\ \A n \in DOMAIN orig_list : extrap_list[n] = orig_list[n] + d

\* C27: _extrap_polygons_to_grid_points returns, for every storm object and
\* buffer, row and column lists of the length of the original lists, every
\* row index shifted by one integer dr and every column index by one
\* integer dc, the displacement of the first vertex divided by the grid
\* spacing and rounded to the nearest integer: |dr * spacing - dy| is at
\* most half a spacing, and likewise for dc.
C27_ListsShiftedByRoundedDisplacement ==
    pc = "accumulate" =>
        \A k \in DOMAIN this_storm_object_table : \A j \in 1..NumBuffers :
            /\ ShiftedByNearestWhole(
                   this_extrap_storm_object_table[k].grid_rows[j],
                   this_storm_object_table[k].grid_rows[j],
                   FirstVertexDiff(k, j, 2), GridSpacingY)
            /\ ShiftedByNearestWhole(
                   this_extrap_storm_object_table[k].grid_columns[j],
                   this_storm_object_table[k].grid_columns[j],
                   FirstVertexDiff(k, j, 1), GridSpacingX)

\* A buffer with grid points has been displaced by one and a half cells,
\* and its lists are moved by two cells.
C27_Witness ==
    /\ pc = "accumulate"
    /\ \E k \in DOMAIN this_storm_object_table : \E j \in 1..NumBuffers :
          /\ Len(this_storm_object_table[k].grid_rows[j]) > 0
          /\ \/ /\ 2 * Abs(FirstVertexDiff(k, j, 1)) = 3 * GridSpacingX
                /\ Abs(this_extrap_storm_object_table[k].grid_columns[j][1]
                        - this_storm_object_table[k].grid_columns[j][1]) = 2
             \/ /\ 2 * Abs(FirstVertexDiff(k, j, 2)) = 3 * GridSpacingY
                /\ Abs(this_extrap_storm_object_table[k].grid_rows[j][1]
                        - this_storm_object_table[k].grid_rows[j][1]) = 2

\* The displacement <<delta-lon, delta-lat>> of the first vertex of buffer j
\* of storm object k over the current lead time.
FirstVertexDisplacement(k, j) ==
    LET storm == this_storm_object_table[k]
        first == storm.latlng[j].exterior[1]
        moved == ExtrapEndpoint(first, storm,
                                lead_times_seconds[lead_time_index])
    IN  <<moved[1] - first[1], moved[2] - first[2]>>

\* The extrapolated polygon has the rings of the original one, every vertex
\* moved by the displacement.
RigidlyMoved(extrap_polygon, polygon, displacement) ==
    extrap_polygon
        = TranslatePolygon(polygon, displacement[1], displacement[2])

\* The same, of the exterior ring alone.
ExteriorRigidlyMoved(extrap_polygon, polygon, displacement) ==
    extrap_polygon.exterior
        = Translate(polygon.exterior, displacement[1], displacement[2])

\* C28: _extrapolate_polygons keeps the number and order of the vertices of
\* every buffer polygon and moves every vertex of a polygon by the
\* displacement of its first vertex over speed x lead time along the
\* bearing; with lead time 0 or speed 0 every polygon is unchanged; the
\* input table is not modified.
C28_PolygonsRigidlyMoved ==
    pc = "accumulate" =>
        /\ this_storm_object_table = DerivedTable(SelectedStorms)
        /\ \A k \in DOMAIN this_storm_object_table : \A j \in 1..NumBuffers :
              LET polygon == this_storm_object_table[k].latlng[j]
                  extrap_polygon ==
                      this_extrap_storm_object_table[k].latlng[j]
              IN  /\ RigidlyMoved(extrap_polygon, polygon,
                                  FirstVertexDisplacement(k, j))
                  /\ (lead_times_seconds[lead_time_index] = 0
                        \/ ZeroSpeed(this_storm_object_table[k]))
                        => extrap_polygon = polygon

\* What holds of the exterior rings.
ExteriorsRigidlyMoved ==
    pc = "accumulate" =>
        /\ this_storm_object_table = DerivedTable(SelectedStorms)
        /\ \A k \in DOMAIN this_storm_object_table : \A j \in 1..NumBuffers :
              LET polygon == this_storm_object_table[k].latlng[j]
                  extrap_polygon ==
                      this_extrap_storm_object_table[k].latlng[j]
              IN  /\ ExteriorRigidlyMoved(extrap_polygon, polygon,
                                          FirstVertexDisplacement(k, j))
                  /\ (polygon.holes = {}
                        /\ (lead_times_seconds[lead_time_index] = 0
                              \/ ZeroSpeed(this_storm_object_table[k])))
                        => extrap_polygon = polygon

\* Every storm object of the table has, for every buffer, a normalized
\* probability in [0, 1].
NormalizedProbsInUnitInterval ==
    \A k \in DOMAIN storm_object_table :
        \A j \in DOMAIN storm_object_table[k].forecast :
            LET normalized ==
                    NormalizedProb(
                        storm_object_table[k].forecast[j],
                        TwicePolygonArea(ProjectPolygonToXY(
                            storm_object_table[k].latlng[j])))
            IN  0 <= normalized /\ normalized <= ProbScale

\* A cell num / den, in units of 1 / ProbScale, is NaN or within [0, 1].
NanOrInUnitInterval(value) ==
    \/ value.den = 0
    \/ /\ value.den > 0
       /\ 0 <= value.num
       /\ value.num <= ProbScale * value.den

\* C29: without smoothing every cell of every finalized planar grid is NaN
\* or a value in [0, 1], for any number of storm objects, buffers and lead
\* times, provided every normalized probability lies in [0, 1].
C29_FinalizedCellsNanOrInUnitInterval ==
    (smoothing_method = "None" /\ NormalizedProbsInUnitInterval) =>
        /\ pc = "store" =>
              \A cell \in AllCells :
                  NanOrInUnitInterval(this_probability_matrix_xy[cell])
        /\ \A i \in DOMAIN gridded_forecast_dict :
              gridded_forecast_dict[i].set =>
                  \A cell \in AllCells :
                      NanOrInUnitInterval(
                          gridded_forecast_dict[i].matrix[cell])

\* A grid of two storm objects with two buffers is finalized without
\* smoothing: one cell was covered four times or more and holds a value
\* strictly between 0 and 1, another cell is NaN.
C29_Witness ==
    /\ pc = "store"
    /\ smoothing_method = "None"
    /\ NormalizedProbsInUnitInterval
    /\ Len(this_storm_object_table) = 2
    /\ NumBuffers = 2
    /\ \E cell \in AllCells :
          /\ this_num_forecast_matrix[cell] >= 4
          /\ this_probability_matrix_xy[cell].num > 0
          /\ this_probability_matrix_xy[cell].num
                < ProbScale * this_probability_matrix_xy[cell].den
    /\ \E cell \in AllCells : this_probability_matrix_xy[cell].den = 0

----------------------------------------------------------------------------
(***************************************************************************)
(* Properties of storm_image_generator_2d.                                 *)
(***************************************************************************)
\* The file at the cursor is about to be read.
FileIsRead == generator_pc = "read"

CursorInRange == image_time_index \in 0..(num_image_times - 1)

MemoryIsEmpty ==
    /\ full_predictor_matrix.is_none
    /\ all_target_values.is_none
    /\ num_image_times_in_memory = 0
    /\ \A k \in 1..NumClasses : num_examples_in_memory_by_class[k] = 0

\* A read attempt moves the cursor by one, from the last image time to 0.
ReadAdvancesCursor ==
    FileIsRead =>
        image_time_index' =
            IF image_time_index = num_image_times - 1 THEN 0
            ELSE image_time_index + 1

\* The yield leaves the cursor where it is and the memory empty.
YieldKeepsCursor ==
    (generator_pc = "batch" \/ generator_pc = "yielded") =>
        /\ image_time_index' = image_time_index
        /\ generator_pc' = "yielded" => MemoryIsEmpty'

\* C30: in storm_image_generator_2d the cursor image_time_index is within
\* [0, number of image times) whenever a file is read; every read attempt,
\* also one that returns no storm objects, advances it by exactly one,
\* wrapping to 0 after the last image time; a yield does not reset it, and
\* after every yield the predictor matrix, the target values, the count of
\* image times and the counts per class are empty.
C30_CursorWrapsAndMemoryIsReset ==
    /\ [](FileIsRead => CursorInRange)
    /\ [](generator_pc = "yielded" => MemoryIsEmpty)
    /\ [][ReadAdvancesCursor /\ YieldKeepsCursor]_vars

\* A batch drawn by class has been yielded with the cursor in the middle of
\* three image times.
C30_Witness ==
    /\ generator_pc = "yielded"
    /\ num_image_times = 3
    /\ image_time_index = 1
    /\ ~class_fractions_to_sample.is_none

=============================================================================
